---- MODULE Spec2Model ----
(***************************************************************************)
(* Sales-sheet filtering: the two-pass deduplicator (filters.py) and the   *)
(* filter pipeline that feeds it (run_preset.py, preprocess.py).           *)
(*                                                                         *)
(* A text is a sequence of one-character strings, so that the string       *)
(* conversions of the code (strip, upper, the regular expressions of       *)
(* _normalize_address_key, VIN_RE, pd.to_numeric) are computed and not     *)
(* assumed.  A date is a natural number, later dates being larger, and 0    *)
(* stands for NaT.                                                         *)
(***************************************************************************)
EXTENDS Integers, Sequences, FiniteSets, TLC

(***************************************************************************)
(* Text helpers                                                            *)
(***************************************************************************)
LowerLetters == <<"a","b","c","d","e","f","g","h","i","j","k","l","m",
                  "n","o","p","q","r","s","t","u","v","w","x","y","z">>
UpperLetters == <<"A","B","C","D","E","F","G","H","I","J","K","L","M",
                  "N","O","P","Q","R","S","T","U","V","W","X","Y","Z">>
Digits == <<"0","1","2","3","4","5","6","7","8","9">>

\* The characters of the model in ASCII order (for string comparison).
AsciiOrder == <<"\t", " ", "#", ",", "-", ".">> \o Digits \o UpperLetters
              \o LowerLetters \o <<"|">>

Range(f) == {f[i] : i \in DOMAIN f}

IndexOf(seq, c) == CHOOSE i \in DOMAIN seq : seq[i] = c

Chars == Range(AsciiOrder)
DigitChars == Range(Digits)
UpperAlnumChars == Range(UpperLetters) \cup Range(Digits)
WordChars == Range(UpperLetters) \cup Range(LowerLetters) \cup Range(Digits)

\* ord(c), up to an order-preserving renumbering
Ord == [c \in Chars |-> IndexOf(AsciiOrder, c)]

\* the value of a decimal digit
DigitValue == [c \in DigitChars |-> IndexOf(Digits, c) - 1]

IsSpace(c) == c \in {" ", "\t"}
IsDigit(c) == c \in DigitChars
IsUpperAlnum(c) == c \in UpperAlnumChars
IsWord(c) == c \in WordChars

\* str.upper() on one character
UpperMap == [c \in Chars |-> IF c \in Range(LowerLetters)
                              THEN UpperLetters[IndexOf(LowerLetters, c)] ELSE c]
UpperChar(c) == UpperMap[c]

\* str.upper()
Upper(s) == [i \in DOMAIN s |-> UpperChar(s[i])]

\* str.strip(): drop leading and trailing whitespace
Strip(s) ==
    IF \A i \in DOMAIN s : IsSpace(s[i]) THEN <<>>
    ELSE LET lo == CHOOSE i \in DOMAIN s :
                       ~IsSpace(s[i]) /\ \A j \in 1..(i-1) : IsSpace(s[j])
             hi == CHOOSE i \in DOMAIN s :
                       ~IsSpace(s[i]) /\ \A j \in (i+1)..Len(s) : IsSpace(s[j])
         IN SubSeq(s, lo, hi)

\* Python's string order (code points), as "a < b"
TextLess(a, b) ==
    LET diff == {i \in DOMAIN a \cap DOMAIN b : a[i] # b[i]}
        first == CHOOSE i \in diff : \A j \in diff : i <= j
    IN IF diff = {} THEN Len(a) < Len(b) ELSE Ord[a[first]] < Ord[b[first]]

\* \b of the re module, between s[p-1] and s[p]
WordAt(s, p) == p \in DOMAIN s /\ IsWord(s[p])
Boundary(s, p) == WordAt(s, p - 1) # WordAt(s, p)

\* s[i..] starts with the literal w
StartsAt(s, i, w) ==
    /\ i + Len(w) - 1 <= Len(s)
    /\ \A k \in 1..Len(w) : s[i + k - 1] = w[k]

\* the first index >= i that holds no whitespace (\s* is greedy)
RECURSIVE SkipSpace(_, _)
SkipSpace(s, i) == IF i \in DOMAIN s /\ IsSpace(s[i]) THEN SkipSpace(s, i + 1) ELSE i

SkipDot(s, i) == IF i \in DOMAIN s /\ s[i] = "." THEN i + 1 ELSE i

(***************************************************************************)
(* _safe_str, VIN_RE, pd.to_numeric                                        *)
(***************************************************************************)
\* s.fillna("").astype(str).str.strip() on one cell
_safe_str(s) == Strip(s)

\* [A-HJ-NPR-Z0-9]
VinClass == (Range(UpperLetters) \ {"I", "O", "Q"}) \cup Range(Digits)

VinLength == 17

\* VIN_RE.fullmatch(v): (?i)\b(?![IOQ])[A-HJ-NPR-Z0-9]{17}\b
VIN_RE_fullmatch(v) ==
    /\ Len(v) = VinLength
    /\ \A i \in DOMAIN v : UpperChar(v[i]) \in VinClass


RECURSIVE DigitsValue(_)
DigitsValue(s) ==
    IF s = <<>> THEN 0
    ELSE 10 * DigitsValue(SubSeq(s, 1, Len(s) - 1)) + DigitValue[s[Len(s)]]

\* pd.to_numeric(.., errors="coerce") on the unsigned decimal integers; every
\* other text (the empty one included) is NaN
IsNumeric(s) == s # <<>> /\ \A i \in DOMAIN s : IsDigit(s[i])

\* __HAS_DEAL
HasDeal(deal) == _safe_str(deal) # <<>>

\* __DN_NUM without the fillna: NaN is sorted after every number
DnNumNotFilled(deal) ==
    IF IsNumeric(_safe_str(deal)) THEN DigitsValue(_safe_str(deal)) ELSE 1000000

\* __DN_NUM_FILLED: the numeric value, NaN filled with -inf (here -1, below
\* every unsigned value)
DnNumFilled(deal) ==
    IF IsNumeric(_safe_str(deal)) THEN DigitsValue(_safe_str(deal)) ELSE -1

(***************************************************************************)
(* _normalize_address_key                                                  *)
(***************************************************************************)
PO_BOX == <<"P", "O", " ", "B", "O", "X">>
BOX == <<"B", "O", "X">>
UNIT == <<"U", "N", "I", "T">>

\* the alternatives of the unit-label pattern, in the pattern's order
UnitLabels == << <<"A", "P", "T">>,
                 <<"A", "P", "A", "R", "T", "M", "E", "N", "T">>,
                 <<"U", "N", "I", "T">>,
                 <<"S", "T", "E">>,
                 <<"S", "U", "I", "T", "E">>,
                 <<"#">>,
                 <<"B", "L", "D", "G">>,
                 <<"B", "U", "I", "L", "D", "I", "N", "G">>,
                 <<"R", "M">>,
                 <<"R", "O", "O", "M">> >>

\* BOX\b matched at k: the index after the match, 0 if none
MatchBox(s, k) == IF StartsAt(s, k, BOX) /\ Boundary(s, k + 3) THEN k + 3 ELSE 0

\* O\.?\s*BOX\b matched at j
MatchOBox(s, j) ==
    IF StartsAt(s, j, <<"O">>) THEN MatchBox(s, SkipSpace(s, SkipDot(s, j + 1))) ELSE 0

\* \bP\.?\s*O\.?\s*BOX\b matched at i: the index after the match, 0 if none
MatchPoBox(s, i) ==
    IF Boundary(s, i) /\ StartsAt(s, i, <<"P">>)
    THEN MatchOBox(s, SkipSpace(s, SkipDot(s, i + 1)))
    ELSE 0

\* the end of the first alternative among hits that matches at i, 0 if none
UnitEnd(i, hits) ==
    IF hits = {} THEN 0
    ELSE i + Len(UnitLabels[CHOOSE n \in hits : \A m \in hits : n <= m])

\* \b(APT|APARTMENT|UNIT|STE|SUITE|#|BLDG|BUILDING|RM|ROOM)\b matched at i
MatchUnit(s, i) ==
    UnitEnd(i, {n \in DOMAIN UnitLabels :
                   /\ Boundary(s, i)
                   /\ StartsAt(s, i, UnitLabels[n])
                   /\ Boundary(s, i + Len(UnitLabels[n]))})

\* re.sub(pattern, repl, s) from index i on; e is the end of the match at i
\* (0: no match at i)
RECURSIVE SubPoBox(_, _)
SubPoBoxAt(s, i, e) ==
    IF e # 0 THEN PO_BOX \o SubPoBox(s, e) ELSE <<s[i]>> \o SubPoBox(s, i + 1)
SubPoBox(s, i) == IF i > Len(s) THEN <<>> ELSE SubPoBoxAt(s, i, MatchPoBox(s, i))

RECURSIVE SubUnit(_, _)
SubUnitAt(s, i, e) ==
    IF e # 0 THEN UNIT \o SubUnit(s, e) ELSE <<s[i]>> \o SubUnit(s, i + 1)
SubUnit(s, i) == IF i > Len(s) THEN <<>> ELSE SubUnitAt(s, i, MatchUnit(s, i))

\* re.sub(r"[^A-Z0-9\s]", " ", v)
SubPunct(s) == [i \in DOMAIN s |-> IF IsUpperAlnum(s[i]) \/ IsSpace(s[i]) THEN s[i] ELSE " "]

\* re.sub(r"\s+", " ", v)
RECURSIVE CollapseSpace(_)
CollapseSpace(s) ==
    IF s = <<>> THEN <<>>
    ELSE IF IsSpace(s[1])
         THEN <<" ">> \o CollapseSpace(SubSeq(s, SkipSpace(s, 1), Len(s)))
         ELSE <<s[1]>> \o CollapseSpace(Tail(s))

\* norm() of _normalize_address_key: strip and upper, the PO BOX variants,
\* the unit labels, the punctuation, the white space
norm(s) ==
    Strip(CollapseSpace(SubPunct(SubUnit(SubPoBox(Upper(Strip(s)), 1), 1))))

\* re.sub(r"[^0-9]", "", str(z or ""))[:5]
zip5(z) ==
    LET d == SelectSeq(z, IsDigit)
    IN SubSeq(d, 1, IF Len(d) < 5 THEN Len(d) ELSE 5)

\* a key that is joined even when a part is missing
JoinKeyAlways(a1n, cityn, staten, zip) ==
    a1n \o <<"|">> \o cityn \o <<"|">> \o staten \o <<"|">> \o zip

\* lines 107-109: the key of the normalised parts, empty unless all are present
JoinKey(a1n, cityn, staten, zip) ==
    IF a1n = <<>> \/ cityn = <<>> \/ staten = <<>> \/ zip = <<>> THEN <<>>
    ELSE a1n \o <<"|">> \o cityn \o <<"|">> \o staten \o <<"|">> \o zip

_normalize_address_key(a1, city, state, z) ==
    JoinKey(norm(a1), norm(city), norm(state), zip5(z))


(***************************************************************************)
(* Tables.  A table is [cols, rows]: the set of its column names and the   *)
(* sequence of its rows; a row carries its index label idx (pandas keeps   *)
(* the labels of the rows a filter lets through) and one text or date per  *)
(* column.                                                                 *)
(***************************************************************************)
AddressCols == {"Address1", "City", "State", "Zip"}
FallbackDateCols == <<"SoldDate", "SaleDate", "Last_Date">>

SeqMax(S) == CHOOSE x \in S : \A y \in S : y <= x

\* a.combine_first(b) on one cell
combine_first(a, b) == IF a # 0 THEN a ELSE b

\* _effective_date_series on one row, for a table that has DeliveryDate
RECURSIVE CombineFallbacks(_, _, _, _)
CombineFallbacks(cols, r, d, n) ==
    IF n > Len(FallbackDateCols) THEN d
    ELSE CombineFallbacks(cols, r,
            IF FallbackDateCols[n] \in cols THEN combine_first(d, r[FallbackDateCols[n]]) ELSE d,
            n + 1)

\* pd.to_datetime(df.get("DeliveryDate")) is None when the column is absent,
\* and None.combine_first raises as soon as one fallback column is present
EffectiveDateRaises(cols) ==
    "DeliveryDate" \notin cols /\ \E n \in DOMAIN FallbackDateCols : FallbackDateCols[n] \in cols

_effective_date_series(cols, r) ==
    IF "DeliveryDate" \in cols THEN CombineFallbacks(cols, r, r.DeliveryDate, 1) ELSE 0

NoText == <<>>
VinA == <<"1", "H", "G", "C", "M", "8", "2", "6", "3", "3", "A", "0", "0", "4", "3", "5", "2">>
\* VinA as another export writes it: lower case, padded
VinALower == <<" ", "1", "h", "g", "c", "m", "8", "2", "6", "3", "3", "a", "0", "0", "4", "3", "5", "2">>
VinB == <<"2", "T", "1", "B", "U", "R", "H", "E", "0", "J", "C", "0", "3", "4", "4", "6", "1">>
\* 17 characters, but O is outside the VIN alphabet
VinBad17 == <<"1", "H", "G", "C", "M", "8", "2", "6", "3", "3", "A", "O", "O", "4", "3", "5", "2">>

DealText == <<"A", "7">>
Deal5 == <<"5">>
Deal12 == <<"1", "2">>

Addr1 == [Address1 |-> <<"1", " ", "E", "l", "m", " ", "S", "t", ".">>,
          City |-> <<"A", "d", "a">>, State |-> <<"O", "K">>,
          Zip |-> <<"7", "4", "8", "2", "0">>]
\* the same address as Addr1, written differently
Addr1b == [Address1 |-> <<" ", "1", " ", "E", "L", "M", " ", " ", "S", "T">>,
           City |-> <<"A", "D", "A">>, State |-> <<"o", "k">>,
           Zip |-> <<"7", "4", "8", "2", "0", "-", "1", "2", "3", "4">>]
Addr2 == [Address1 |-> <<"P", ".", "O", ".", " ", "B", "o", "x", " ", "9">>,
          City |-> <<"A", "d", "a">>, State |-> <<"O", "K">>,
          Zip |-> <<"7", "4", "8", "2", "0">>]
\* no street: the Address Key is empty
AddrNone == [Address1 |-> NoText,
             City |-> <<"A", "d", "a">>, State |-> <<"O", "K">>,
             Zip |-> <<"7", "4", "8", "2", "0">>]

\* the addresses and the names of the pipeline's raw tables
RunAddrA == [Address1 |-> <<"1", " ", "E", "l", "m", " ", "S", "t", ".">>,
             City |-> <<"N", "a", "p", "a">>, State |-> <<"C", "A">>,
             Zip |-> <<"9", "4", "5", "5", "8">>]
RunAddrB == [Address1 |-> <<"9", " ", "O", "a", "k", " ", "A", "v", "e">>,
             City |-> <<"N", "a", "p", "a">>, State |-> <<"c", "a">>,
             Zip |-> <<"9", "4", "5", "5", "8">>]
RunAddrNV == [Address1 |-> <<"9", " ", "O", "a", "k", " ", "A", "v", "e">>,
              City |-> <<"R", "e", "n", "o">>, State |-> <<"N", "V">>,
              Zip |-> <<"8", "9", "5", "0", "1">>]
RunAddrs == {RunAddrA, RunAddrB, RunAddrNV}

Lee == <<"L", "e", "e">>
AcmeLLC == <<"A", "c", "m", "e", " ", "L", "L", "C">>

\* the VIN as the deduplicator groups it: _safe_str(VIN).str.upper()
VinUp(vin) == Upper(_safe_str(vin))

\* vin_valid of delete_duplicates
VinValid(vin) == VIN_RE_fullmatch(VinUp(vin))

\* a key built from the raw columns, without norm()
RowAddrKeyRaw(r) ==
    IF r.Address1 = <<>> \/ r.City = <<>> \/ r.State = <<>> \/ r.Zip = <<>> THEN <<>>
    ELSE r.Address1 \o <<"|">> \o r.City \o <<"|">> \o r.State \o <<"|">> \o r.Zip

\* the Address Key of a row
RowAddrKey(r) == _normalize_address_key(r.Address1, r.City, r.State, r.Zip)

(***************************************************************************)
(* The sort of both passes: sort_values on                                 *)
(*   [group key, ___DATE, __HAS_DEAL, __DN_NUM_FILLED, ___ORDER]           *)
(* ascending, missing values last (na_position="last"), then               *)
(* groupby(group key).tail(1).  A work row is [r, date, order]; a keyed    *)
(* row adds the group key grp and the two Deal_Number helper columns.      *)
(***************************************************************************)
\* ascending order of the ___DATE column: NaT is placed after every date
DateBefore(x, y) == x # 0 /\ (y = 0 \/ x < y)

BoolBefore(x, y) == ~x /\ y

SortBefore(a, b) ==
    \/ a.grp # b.grp /\ TextLess(a.grp, b.grp)
    \/ /\ a.grp = b.grp
       /\ \/ DateBefore(a.date, b.date)
          \/ /\ a.date = b.date
             /\ \/ BoolBefore(a.has_deal, b.has_deal)
                \/ /\ a.has_deal = b.has_deal
                   /\ \/ a.dn_num < b.dn_num
                      \/ /\ a.dn_num = b.dn_num
                         /\ a.order < b.order

\* sort_values: ___ORDER is unique, so the order is total
sort_values(rows) ==
    LET rank == [j \in DOMAIN rows |->
                    Cardinality({k \in DOMAIN rows : SortBefore(rows[k], rows[j])})]
    IN [i \in DOMAIN rows |-> rows[CHOOSE j \in DOMAIN rows : rank[j] = i - 1]]

\* tail(1) without the groupby: the last row of the frame
FrameTail(sorted) == IF sorted = <<>> THEN <<>> ELSE <<sorted[Len(sorted)]>>

\* groupby(grp, sort=False).head(1): the first row of each group
GroupHead(sorted) ==
    LET IsFirst(i) == \A j \in 1..(i - 1) : sorted[j].grp # sorted[i].grp
        RECURSIVE Take(_)
        Take(i) == IF i > Len(sorted) THEN <<>>
                   ELSE (IF IsFirst(i) THEN <<sorted[i]>> ELSE <<>>) \o Take(i + 1)
    IN Take(1)

\* every group without its first row, a group of one row kept whole
GroupWithoutFirst(sorted) ==
    LET Stays(i) == \/ \E j \in 1..(i - 1) : sorted[j].grp = sorted[i].grp
                    \/ \A j \in DOMAIN sorted : j # i => sorted[j].grp # sorted[i].grp
        RECURSIVE Take(_)
        Take(i) == IF i > Len(sorted) THEN <<>>
                   ELSE (IF Stays(i) THEN <<sorted[i]>> ELSE <<>>) \o Take(i + 1)
    IN Take(1)

\* groupby(grp, sort=False).tail(1): the last row of each group
GroupTail(sorted) ==
    LET IsLast(i) == \A j \in (i + 1)..Len(sorted) : sorted[j].grp # sorted[i].grp
        RECURSIVE Take(_)
        Take(i) == IF i > Len(sorted) THEN <<>>
                   ELSE (IF IsLast(i) THEN <<sorted[i]>> ELSE <<>>) \o Take(i + 1)
    IN Take(1)

\* the tie-break helper columns of a frame (lines 140-148 and 202-211)
AddHelpers(cols, w, grp) ==
    [r |-> w.r, date |-> w.date, order |-> w.order, grp |-> grp,
     has_deal |-> IF "Deal_Number" \in cols THEN HasDeal(w.r.Deal_Number) ELSE FALSE,
     dn_num |-> IF "Deal_Number" \in cols THEN DnNumFilled(w.r.Deal_Number) ELSE -1]

DropHelpers(k) == [r |-> k.r, date |-> k.date, order |-> k.order]

\* Without a Deal_Number column __DN_NUM is pd.Series([pd.NA] * len(frame)),
\* aligned on the frame's labels: a row whose label is below len(frame) gets
\* pd.NA, and astype(float) raises TypeError on it; the others get NaN
DnNumRaises(cols, frame) ==
    /\ "Deal_Number" \notin cols
    /\ \E i \in DOMAIN frame : frame[i].r.idx < Len(frame)

(***************************************************************************)
(* delete_duplicates, step by step.  Its locals are the fields of a        *)
(* record: work, vin_valid (the labels where it is True), addr_key (label  *)
(* -> key), prune_addr_keys, dropped_vin and raised (the exception, if     *)
(* any).                                                                   *)
(***************************************************************************)
Labels(rows) == {rows[i].idx : i \in DOMAIN rows}

RowAt(rows, l) == rows[CHOOSE i \in DOMAIN rows : rows[i].idx = l]

\* lines 114-132: the helper columns ___DATE and ___ORDER, vin_valid, addr_key
dd_begin(df) ==
    [work |-> IF EffectiveDateRaises(df.cols) THEN <<>>
              ELSE [i \in DOMAIN df.rows |->
                       [r |-> df.rows[i],
                        date |-> _effective_date_series(df.cols, df.rows[i]),
                        order |-> i - 1]],
     vin_valid |-> IF "VIN" \in df.cols
                   THEN {l \in Labels(df.rows) : VinValid(RowAt(df.rows, l).VIN)}
                   ELSE {},
     addr_key |-> [l \in Labels(df.rows) |->
                      IF AddressCols \subseteq df.cols THEN RowAddrKey(RowAt(df.rows, l))
                      ELSE <<>>],
     prune_addr_keys |-> {},
     dropped_vin |-> <<>>,
     raised |-> IF EffectiveDateRaises(df.cols) THEN "AttributeError" ELSE ""]

\* max_date_by_addr.get(k, pd.NaT): groupby(level=0).max() skips NaT
max_date_by_addr(remaining, k) ==
    LET dates == {remaining[i].date : i \in {j \in DOMAIN remaining :
                      RowAddrKey(remaining[j].r) = k /\ remaining[j].date # 0}}
    IN IF dates = {} THEN 0 ELSE SeqMax(dates)

\* a cross-pass test that marks no address
PruneTestNever(drop_date, rem_max) == FALSE

\* line 178: the dropped row is dated and newer than every remaining row of
\* its address
PruneTest(drop_date, rem_max) == drop_date # 0 /\ (rem_max = 0 \/ drop_date > rem_max)

\* lines 134-185: Pass 1 (an exception raised earlier has ended the call)
dd_pass1(df, st) ==
    IF st.raised # "" \/ st.vin_valid = {} THEN st
    ELSE
    LET InVin(w) == w.r.idx \in st.vin_valid
        NotInVin(w) == w.r.idx \notin st.vin_valid
        with_vin == SelectSeq(st.work, InVin)
        without_vin == SelectSeq(st.work, NotInVin)
        keyed == [i \in DOMAIN with_vin |->
                     AddHelpers(df.cols, with_vin[i], VinUp(with_vin[i].r.VIN))]
        with_vin_dedup == GroupTail(sort_values(keyed))
        kept == {with_vin_dedup[i].r.idx : i \in DOMAIN with_vin_dedup}
        Dropped(w) == w.r.idx \notin kept
        dropped == SelectSeq(with_vin, Dropped)
        remaining_after_vin ==
            [i \in DOMAIN with_vin_dedup |-> DropHelpers(with_vin_dedup[i])] \o without_vin
        prune == IF dropped # <<>> /\ AddressCols \subseteq df.cols
                 THEN {RowAddrKey(dropped[i].r) : i \in {j \in DOMAIN dropped :
                          /\ RowAddrKey(dropped[j].r) # <<>>
                          /\ PruneTest(dropped[j].date,
                                 max_date_by_addr(remaining_after_vin,
                                                  RowAddrKey(dropped[j].r)))}}
                 ELSE {}
    IN IF DnNumRaises(df.cols, with_vin) THEN [st EXCEPT !.raised = "TypeError"]
       ELSE [st EXCEPT !.work = remaining_after_vin,
                       !.dropped_vin = dropped,
                       !.prune_addr_keys = prune]

\* lines 187-218: Pass 2 (an exception raised earlier has ended the call)
dd_pass2(df, st) ==
    IF st.raised # "" \/ \A l \in DOMAIN st.addr_key : st.addr_key[l] = <<>> THEN st
    ELSE
    LET InMask(w) == st.addr_key[w.r.idx] # <<>>
        NotInMask(w) == st.addr_key[w.r.idx] = <<>>
        NotPruned(w) == RowAddrKey(w.r) \notin st.prune_addr_keys
        with_addr == IF st.prune_addr_keys # {}
                     THEN SelectSeq(SelectSeq(st.work, InMask), NotPruned)
                     ELSE SelectSeq(st.work, InMask)
        without_addr == SelectSeq(st.work, NotInMask)
        keyed == [i \in DOMAIN with_addr |->
                     AddHelpers(df.cols, with_addr[i], RowAddrKey(with_addr[i].r))]
        with_addr_dedup == GroupTail(sort_values(keyed))
    IN IF DnNumRaises(df.cols, with_addr) THEN [st EXCEPT !.raised = "TypeError"]
       ELSE [st EXCEPT !.work =
                [i \in DOMAIN with_addr_dedup |-> DropHelpers(with_addr_dedup[i])]
                \o without_addr]

\* the helper columns dropped at line 221
CleanupWithoutAddrKey ==
    {"___DATE", "___ORDER", "___VIN_UP", "__HAS_DEAL", "__DN_NUM", "__DN_NUM_FILLED"}

CLEANUP_COLUMNS ==
    {"___DATE", "___ORDER", "___VIN_UP", "___ADDR_KEY", "__HAS_DEAL", "__DN_NUM",
     "__DN_NUM_FILLED"}

\* the columns of work before the cleanup: those of the copy of df_can, the
\* two of lines 120-121, those of with_vin_dedup if Pass 1 ran (141-148) and
\* those of with_addr_dedup if Pass 2 ran (202-211); pd.concat keeps the
\* union of the columns of its parts
work_columns(df, st) ==
    df.cols \cup {"___DATE", "___ORDER"}
    \cup (IF st.vin_valid # {}
          THEN {"__HAS_DEAL", "__DN_NUM", "__DN_NUM_FILLED", "___VIN_UP"} ELSE {})
    \cup (IF \E l \in DOMAIN st.addr_key : st.addr_key[l] # <<>>
          THEN {"__HAS_DEAL", "__DN_NUM", "__DN_NUM_FILLED", "___ADDR_KEY"} ELSE {})

\* lines 220-223: drop the helper columns, count the removed rows
dd_return(df, st) ==
    [table |-> [cols |-> work_columns(df, st) \ CLEANUP_COLUMNS,
                rows |-> [i \in DOMAIN st.work |-> st.work[i].r]],
     removed |-> Len(df.rows) - Len(st.work),
     raised |-> ""]

\* the outcome of the call: the exception, or the returned pair
dd_end(df, st) ==
    IF st.raised # "" THEN [table |-> df, removed |-> 0, raised |-> st.raised]
    ELSE dd_return(df, st)

\* delete_duplicates as one call
delete_duplicates(df) ==
    IF Len(df.rows) = 0 THEN [table |-> df, removed |-> 0, raised |-> ""]
    ELSE dd_end(df, dd_pass2(df, dd_pass1(df, dd_begin(df))))

(***************************************************************************)
(* Input tables                                                            *)
(***************************************************************************)
MaxRows == 3

CanonCols == {"VIN", "Deal_Number", "DeliveryDate"} \cup AddressCols

\* the rows of a family: every combination of the given values
RowVals(vins, dates, solds, deals, addrs) ==
    {[VIN |-> v, DeliveryDate |-> d, SoldDate |-> s, Deal_Number |-> n,
      Address1 |-> a.Address1, City |-> a.City, State |-> a.State, Zip |-> a.Zip] :
        v \in vins, d \in dates, s \in solds, n \in deals, a \in addrs}

\* The input tables are drawn from these families: the columns a table has
\* and the values its rows take.
Families ==
    { \* dates and the cross-pass rule
      [cols |-> CanonCols,
       vals |-> RowVals({NoText, VinA}, {0, 1, 2}, {0}, {NoText}, {AddrNone, Addr1})],
      \* Deal_Number tie-breaks
      [cols |-> CanonCols,
       vals |-> RowVals({NoText, VinA}, {1}, {0}, {NoText, DealText, Deal5, Deal12},
                        {Addr1})
                \cup RowVals({NoText, VinA}, {0, 2}, {0}, {NoText}, {Addr1})],
      \* spellings of VINs and addresses
      [cols |-> CanonCols,
       vals |-> RowVals({VinA, VinALower, VinBad17}, {1}, {0}, {NoText},
                        {AddrNone, Addr1, Addr1b})
                \cup RowVals({VinA, VinB}, {1}, {0}, {NoText}, {Addr2})],
      \* fallback date column next to DeliveryDate
      [cols |-> CanonCols \cup {"SoldDate"},
       vals |-> RowVals({VinA}, {0, 2}, {0, 1, 3}, {NoText}, {Addr1})],
      \* tables that lack a column
      [cols |-> CanonCols \ {"Deal_Number"},
       vals |-> RowVals({NoText, VinA}, {1, 2}, {0}, {NoText}, {AddrNone, Addr1})],
      [cols |-> (CanonCols \ {"DeliveryDate"}) \cup {"SoldDate"},
       vals |-> RowVals({NoText, VinA}, {0}, {1, 2}, {NoText}, {Addr1})],
      [cols |-> CanonCols \ {"DeliveryDate"},
       vals |-> RowVals({NoText, VinA}, {0}, {0}, {NoText}, {AddrNone, Addr1})],
      [cols |-> CanonCols \ {"VIN"},
       vals |-> RowVals({NoText}, {1, 2}, {0}, {NoText}, {AddrNone, Addr1})],
      [cols |-> CanonCols \ {"Zip"},
       vals |-> RowVals({NoText, VinA}, {1, 2}, {0}, {NoText}, {Addr1})] }

\* the table whose rows are f[l] at the labels l of DOMAIN f, in label order
RECURSIVE RowsFrom(_, _)
RowsFrom(f, l) ==
    IF l >= MaxRows THEN <<>>
    ELSE (IF l \in DOMAIN f THEN <<[idx |-> l] @@ f[l]>> ELSE <<>>) \o RowsFrom(f, l + 1)

\* df is a table of the family fam: rows at some of the labels 0..MaxRows-1
IsTable(df, fam) ==
    \E S \in SUBSET (0..(MaxRows - 1)) : \E f \in [S -> fam.vals] :
        df = [cols |-> fam.cols, rows |-> RowsFrom(f, 0)]

(***************************************************************************)
(* State: one call of delete_duplicates(df_can)                            *)
(***************************************************************************)
VARIABLES df_can, pc, locals, result

vars == <<df_can, pc, locals, result>>

NoLocals == [work |-> <<>>, vin_valid |-> {}, addr_key |-> <<>>,
             prune_addr_keys |-> {}, dropped_vin |-> <<>>, raised |-> ""]
NoResult == [table |-> [cols |-> {}, rows |-> <<>>], removed |-> 0, raised |-> ""]

Init ==
    /\ \E fam \in Families : IsTable(df_can, fam)
    /\ pc = "call"
    /\ locals = NoLocals
    /\ result = NoResult

\* lines 114-116: an empty table is returned as it is
ReturnEmpty ==
    /\ pc = "call"
    /\ Len(df_can.rows) = 0
    /\ result' = [table |-> df_can, removed |-> 0, raised |-> ""]
    /\ pc' = "done"
    /\ UNCHANGED <<df_can, locals>>

Raise(st) ==
    /\ result' = [table |-> df_can, removed |-> 0, raised |-> st.raised]
    /\ pc' = "raised"

\* lines 118-132
Begin ==
    /\ pc = "call"
    /\ Len(df_can.rows) > 0
    /\ locals' = dd_begin(df_can)
    /\ IF locals'.raised # "" THEN Raise(locals')
       ELSE pc' = "pass1" /\ UNCHANGED result
    /\ UNCHANGED df_can

\* lines 134-185
Pass1 ==
    /\ pc = "pass1"
    /\ locals' = dd_pass1(df_can, locals)
    /\ IF locals'.raised # "" THEN Raise(locals')
       ELSE pc' = "pass2" /\ UNCHANGED result
    /\ UNCHANGED df_can

\* lines 187-218
Pass2 ==
    /\ pc = "pass2"
    /\ locals' = dd_pass2(df_can, locals)
    /\ IF locals'.raised # "" THEN Raise(locals')
       ELSE pc' = "cleanup" /\ UNCHANGED result
    /\ UNCHANGED df_can

\* lines 220-223
Return ==
    /\ pc = "cleanup"
    /\ result' = dd_return(df_can, locals)
    /\ pc' = "done"
    /\ UNCHANGED <<df_can, locals>>

Next == ReturnEmpty \/ Begin \/ Pass1 \/ Pass2 \/ Return

Spec == Init /\ [][Next]_vars

(***************************************************************************)
(* Vocabulary of the properties                                            *)
(***************************************************************************)
\* the rows of the input with their Effective Date and position
InputWork == Range(dd_begin(df_can).work)

\* the Pass 1 group of a work row: its upper-cased VIN if strictly valid
VinKey(w) ==
    IF "VIN" \in df_can.cols /\ VinValid(w.r.VIN) THEN VinUp(w.r.VIN) ELSE <<>>

\* the Pass 2 group of a work row: its Address Key
AddrKey(w) == IF AddressCols \subseteq df_can.cols THEN RowAddrKey(w.r) ELSE <<>>

HasDealOf(w) == "Deal_Number" \in df_can.cols /\ HasDeal(w.r.Deal_Number)
IsNumericDeal(w) == "Deal_Number" \in df_can.cols /\ IsNumeric(Strip(w.r.Deal_Number))
DealValue(w) == DigitsValue(Strip(w.r.Deal_Number))

\* a date is at least as late as another, no date being the earliest
NotOlder(d, e) == e = 0 \/ (d # 0 /\ d >= e)

Latest(dates) == CHOOSE d \in dates : \A e \in dates : NotOlder(d, e)

Pass1Done == pc = "pass2"
Finished == pc = "done" /\ Len(df_can.rows) > 0

\* C1: after Pass 1 at most one row survives per upper-cased strictly valid
\* VIN, and the survivor's Effective Date is the latest Effective Date among
\* the input rows with that VIN.
C1_VinSurvivorHasLatestDate ==
    Pass1Done =>
        \A x \in InputWork : VinKey(x) # <<>> =>
            LET group == {y \in InputWork : VinKey(y) = VinKey(x)}
                surv == {i \in DOMAIN locals.work : VinKey(locals.work[i]) = VinKey(x)}
            IN /\ Cardinality(surv) <= 1
               /\ \A i \in surv : locals.work[i].date = Latest({y.date : y \in group})

\* C2: in the output, the survivor of an Address Key is not older than any row
\* with that key that Pass 1 removed (no date counting as earliest).
C2_SurvivorNotOlderThanVinDropped ==
    Finished =>
        \A i \in DOMAIN locals.work : \A j \in DOMAIN locals.dropped_vin :
            (AddrKey(locals.work[i]) # <<>>
             /\ AddrKey(locals.dropped_vin[j]) = AddrKey(locals.work[i]))
            => NotOlder(locals.work[i].date, locals.dropped_vin[j].date)

\* the Address Key of an output row, as verify and the tests compute it
NormalizedKey(cols, r) ==
    IF AddressCols \subseteq cols
    THEN _normalize_address_key(r.Address1, r.City, r.State, r.Zip)
    ELSE <<>>

Pass1Step == pc = "pass1" /\ pc' = "pass2"
Pass2Step == pc = "pass2" /\ pc' = "cleanup"

\* the rows that entered Pass 2 and that Pass 2 removed (seen after Pass 2)
Pass2Removed == (InputWork \ Range(locals.dropped_vin)) \ Range(locals.work)

\* two rows tied on Effective Date
DateTied(a, b) == a.date = b.date

\* a's Deal_Number ranks strictly above b's: present above absent, then the
\* higher number, a number above a text that is no number
DealAbove(a, b) ==
    \/ HasDealOf(a) /\ ~HasDealOf(b)
    \/ /\ HasDealOf(a) = HasDealOf(b)
       /\ IsNumericDeal(a)
       /\ (~IsNumericDeal(b) \/ DealValue(a) > DealValue(b))

DealTied(a, b) == ~DealAbove(a, b) /\ ~DealAbove(b, a)

\* C3 (as claimed): in every group of either pass exactly one row survives.
C3_ExactlyOneSurvivorPerGroup ==
    [][/\ Pass1Step =>
            \A x \in Range(locals.work) : VinKey(x) # <<>> =>
                Cardinality({i \in DOMAIN locals'.work :
                                VinKey(locals'.work[i]) = VinKey(x)}) = 1
       /\ Pass2Step =>
            \A x \in Range(locals.work) : AddrKey(x) # <<>> =>
                Cardinality({i \in DOMAIN locals'.work :
                                AddrKey(locals'.work[i]) = AddrKey(x)}) = 1
      ]_vars

\* C3 (amended): exactly one row survives every VIN group of Pass 1 and every
\* address group of Pass 2 that the cross-pass rule does not suppress; of a
\* suppressed address group no row survives.
C3_OneSurvivorUnlessSuppressed ==
    [][/\ Pass1Step =>
            \A x \in Range(locals.work) : VinKey(x) # <<>> =>
                Cardinality({i \in DOMAIN locals'.work :
                                VinKey(locals'.work[i]) = VinKey(x)}) = 1
       /\ Pass2Step =>
            \A x \in Range(locals.work) : AddrKey(x) # <<>> =>
                Cardinality({i \in DOMAIN locals'.work :
                                AddrKey(locals'.work[i]) = AddrKey(x)})
                = IF AddrKey(x) \in locals.prune_addr_keys THEN 0 ELSE 1
      ]_vars

\* Pass 2 has suppressed a whole address group and reduced another group of
\* two or more rows to one
C3_Witness ==
    /\ pc = "cleanup"
    /\ \E x \in Pass2Removed : AddrKey(x) \in locals.prune_addr_keys
    /\ \E x \in InputWork : \E i \in DOMAIN locals.dropped_vin :
          /\ VinKey(x) = VinKey(locals.dropped_vin[i])
          /\ x \in Range(locals.work)

\* C4: no two rows of the output have the same non-empty Address Key.
C4_NoDuplicateAddressKey ==
    Finished =>
        \A i, j \in DOMAIN result.table.rows :
            (i # j /\ NormalizedKey(result.table.cols, result.table.rows[i]) # <<>>)
            => NormalizedKey(result.table.cols, result.table.rows[i])
               # NormalizedKey(result.table.cols, result.table.rows[j])

\* two rows that spell one address differently came in, one row of that
\* address came out
C4_Witness ==
    /\ Finished
    /\ \E i, j \in DOMAIN df_can.rows :
          /\ df_can.rows[i].Address1 # df_can.rows[j].Address1
          /\ NormalizedKey(df_can.cols, df_can.rows[i]) # <<>>
          /\ NormalizedKey(df_can.cols, df_can.rows[i])
             = NormalizedKey(df_can.cols, df_can.rows[j])
          /\ df_can.rows[i] \in Range(result.table.rows)
          /\ df_can.rows[j] \notin Range(result.table.rows)

\* C6: in each group of either pass the survivor has the latest Effective
\* Date of the group, a row with no date ranking below every dated row.
C6_SurvivorHasLatestDate ==
    [][/\ Pass1Step =>
            \A i \in DOMAIN locals'.work : \A x \in Range(locals.work) :
                (VinKey(x) # <<>> /\ VinKey(x) = VinKey(locals'.work[i]))
                => NotOlder(locals'.work[i].date, x.date)
       /\ Pass2Step =>
            \A i \in DOMAIN locals'.work : \A x \in Range(locals.work) :
                (AddrKey(x) # <<>> /\ AddrKey(x) = AddrKey(locals'.work[i]))
                => NotOlder(locals'.work[i].date, x.date)
      ]_vars

\* C7: among the rows of a group tied with the survivor on Effective Date, no
\* row has a Deal_Number that ranks above the survivor's (present above
\* empty, then the higher number, a number above a text that is none).
C7_DealNumberTieBreak ==
    [][/\ Pass1Step =>
            \A i \in DOMAIN locals'.work : \A x \in Range(locals.work) :
                (VinKey(x) # <<>> /\ VinKey(x) = VinKey(locals'.work[i])
                 /\ DateTied(x, locals'.work[i]))
                => ~DealAbove(x, locals'.work[i])
       /\ Pass2Step =>
            \A i \in DOMAIN locals'.work : \A x \in Range(locals.work) :
                (AddrKey(x) # <<>> /\ AddrKey(x) = AddrKey(locals'.work[i])
                 /\ DateTied(x, locals'.work[i]))
                => ~DealAbove(x, locals'.work[i])
      ]_vars

\* Pass 1 kept Deal_Number 12 over 5 and Pass 2 then kept a row with a
\* Deal_Number over an earlier and a later row without one, all on one date
C7_Witness ==
    /\ pc = "cleanup"
    /\ \E s \in Range(locals.work) : \E x \in Pass2Removed :
          /\ AddrKey(s) # <<>> /\ AddrKey(x) = AddrKey(s)
          /\ DateTied(x, s)
          /\ HasDealOf(s) /\ ~HasDealOf(x)
          /\ x.order > s.order
    /\ \E s \in InputWork : \E i \in DOMAIN locals.dropped_vin :
          /\ VinKey(s) = VinKey(locals.dropped_vin[i])
          /\ s \notin Range(locals.dropped_vin)
          /\ DateTied(s, locals.dropped_vin[i])
          /\ IsNumericDeal(s) /\ IsNumericDeal(locals.dropped_vin[i])
          /\ DealValue(s) > DealValue(locals.dropped_vin[i])
          /\ TextLess(Strip(s.r.Deal_Number), Strip(locals.dropped_vin[i].r.Deal_Number))

\* C8: among the rows of a group tied with the survivor on Effective Date and
\* on Deal_Number, none occurs later in the input than the survivor; no two
\* rows share a position, so at most one row of a group survives.
C8_LaterRowWinsTie ==
    [][/\ Pass1Step =>
            /\ \A i \in DOMAIN locals'.work : \A x \in Range(locals.work) :
                 (VinKey(x) # <<>> /\ VinKey(x) = VinKey(locals'.work[i])
                  /\ DateTied(x, locals'.work[i]) /\ DealTied(x, locals'.work[i]))
                 => x.order <= locals'.work[i].order
            /\ \A i, j \in DOMAIN locals'.work :
                 (i # j /\ VinKey(locals'.work[i]) # <<>>)
                 => VinKey(locals'.work[i]) # VinKey(locals'.work[j])
       /\ Pass2Step =>
            /\ \A i \in DOMAIN locals'.work : \A x \in Range(locals.work) :
                 (AddrKey(x) # <<>> /\ AddrKey(x) = AddrKey(locals'.work[i])
                  /\ DateTied(x, locals'.work[i]) /\ DealTied(x, locals'.work[i]))
                 => x.order <= locals'.work[i].order
            /\ \A i, j \in DOMAIN locals'.work :
                 (i # j /\ AddrKey(locals'.work[i]) # <<>>)
                 => AddrKey(locals'.work[i]) # AddrKey(locals'.work[j])
       /\ \A i, j \in DOMAIN locals'.work :
            i # j => locals'.work[i].order # locals'.work[j].order
      ]_vars

\* a fully tied earlier row lost in Pass 1, and its winner lost in Pass 2 to
\* a fully tied row that comes still later
C8_Witness ==
    /\ pc = "cleanup"
    /\ \E s \in Range(locals.work) : \E b \in Pass2Removed :
       \E i \in DOMAIN locals.dropped_vin :
          /\ VinKey(b) # <<>> /\ VinKey(b) = VinKey(locals.dropped_vin[i])
          /\ DateTied(b, locals.dropped_vin[i]) /\ DealTied(b, locals.dropped_vin[i])
          /\ b.order > locals.dropped_vin[i].order
          /\ AddrKey(b) # <<>> /\ AddrKey(b) = AddrKey(s)
          /\ DateTied(b, s) /\ DealTied(b, s)
          /\ s.order > b.order

\* C10: delete_duplicates never raises, and an empty table comes back empty
\* with a removed count of 0.
C10_NeverRaises ==
    /\ pc # "raised"
    /\ (pc = "done" /\ Len(df_can.rows) = 0)
       => (result.table.rows = <<>> /\ result.removed = 0)

(***************************************************************************)
(* The pipeline: run_pipeline (run_preset.py) over the canonical frame of  *)
(* build_canonical_frame (preprocess.py).  The raw table of the model has  *)
(* its columns under their canonical names, so that detect_schema maps a   *)
(* canonical field exactly when the raw table has the column.  Of the      *)
(* canonical fields the model carries Last_Name, the address, VIN,         *)
(* Deal_Number, Year, DeliveryDate and Distance; First_Name, FullName and  *)
(* Address2 have no source column.                                         *)
(***************************************************************************)
\* a cell that holds None; no text is equal to it
None == <<"None">>

\* fillna("") on one cell
fillna(v) == IF v = None THEN <<>> ELSE v

\* str(v)
str(v) == IF v = None THEN <<"N", "o", "n", "e">> ELSE v

\* preprocess.coerce_str on one cell
coerce_str(v) == Strip(str(fillna(v)))

normalize_state_value(v) == IF v = None THEN <<>> ELSE Upper(Strip(str(v)))

EXCLUDE_BRANDS == {
    <<"M", "A", "N", "H", "E", "I", "M">>, <<"A", "D", "E", "S", "A">>,
    <<"C", "A", "R", "M", "A", "X">>, <<"A", "U", "T", "O", "N", "A", "T", "I", "O", "N">>,
    <<"L", "I", "T", "H", "I", "A">>, <<"P", "E", "N", "S", "K", "E">>,
    <<"S", "O", "N", "I", "C">>, <<"G", "R", "O", "U", "P", " ", "1">>,
    <<"C", "A", "R", "V", "A", "N", "A">>, <<"E", "N", "T", "E", "R", "P", "R", "I", "S", "E">>,
    <<"H", "E", "R", "T", "Z">>, <<"A", "V", "I", "S">>, <<"B", "U", "D", "G", "E", "T">>,
    <<"C", "O", "P", "A", "R", "T">>, <<"I", "A", "A">>, <<"V", "R", "O", "O", "M">> }

EXCLUDE_OEMS == {
    <<"T", "O", "Y", "O", "T", "A">>, <<"H", "O", "N", "D", "A">>,
    <<"C", "H", "E", "V", "R", "O", "L", "E", "T">>, <<"C", "H", "E", "V", "Y">>,
    <<"F", "O", "R", "D">>, <<"N", "I", "S", "S", "A", "N">>, <<"K", "I", "A">>,
    <<"H", "Y", "U", "N", "D", "A", "I">>, <<"C", "H", "R", "Y", "S", "L", "E", "R">>,
    <<"D", "O", "D", "G", "E">>, <<"J", "E", "E", "P">>, <<"R", "A", "M">>,
    <<"V", "O", "L", "K", "S", "W", "A", "G", "E", "N">>, <<"V", "W">>, <<"A", "U", "D", "I">>,
    <<"B", "M", "W">>, <<"M", "E", "R", "C", "E", "D", "E", "S">>,
    <<"M", "E", "R", "C", "E", "D", "E", "S", "-", "B", "E", "N", "Z">>,
    <<"L", "E", "X", "U", "S">>, <<"A", "C", "U", "R", "A">>,
    <<"I", "N", "F", "I", "N", "I", "T", "I">>, <<"G", "M", "C">>, <<"B", "U", "I", "C", "K">>,
    <<"C", "A", "D", "I", "L", "L", "A", "C">>, <<"S", "U", "B", "A", "R", "U">>,
    <<"M", "A", "Z", "D", "A">>, <<"V", "O", "L", "V", "O">>, <<"P", "O", "R", "S", "C", "H", "E">> }

EXCLUDE_KEYWORDS == {
    <<"A", "U", "T", "O">>, <<"M", "O", "T", "O", "R", "S">>, <<"S", "A", "L", "E", "S">>,
    <<"S", "E", "R", "V", "I", "C", "E">>, <<"P", "A", "R", "T", "S">>, <<"B", "O", "D", "Y">>,
    <<"F", "L", "E", "E", "T">>, <<"W", "H", "O", "L", "E", "S", "A", "L", "E">>,
    <<"A", "U", "C", "T", "I", "O", "N">>, <<"D", "E", "A", "L", "E", "R">>,
    <<"R", "O", "O", "F", "T", "O", "P">>, <<"G", "R", "O", "U", "P">>,
    <<"H", "O", "L", "D", "I", "N", "G", "S">> }

CORPORATE_SUFFIXES == {
    <<"I", "N", "C">>, <<"L", "L", "C">>, <<"L", "L", "P">>, <<"P", "L", "C">>,
    <<"C", "O", "R", "P">>, <<"C", "O">>, <<"C", "O", "M", "P", "A", "N", "Y">>, <<"L", "T", "D">>,
    <<"T", "R", "U", "S", "T">>, <<"F", "O", "U", "N", "D", "A", "T", "I", "O", "N">>,
    <<"A", "S", "S", "O", "C", "I", "A", "T", "I", "O", "N">> }

\* text contains the literal w
Contains(text, w) == \E i \in 1..(Len(text) - Len(w) + 1) : StartsAt(text, i, w)

\* re.search(r"\\b" + re.escape(b) + r"\\b", t): in a raw string "\\b" is
\* the pattern of a backslash followed by the letter b, not a word boundary
RegexHit(t, toks) ==
    \E b \in toks : Contains(t, <<"\\", "b">> \o b \o <<"\\", "b">>)

\* s in re.split(r"[^A-Z0-9]+", t): s is a maximal run of [A-Z0-9] of t
InTokens(t, s) ==
    \E i \in 1..(Len(t) - Len(s) + 1) :
        /\ StartsAt(t, i, s)
        /\ (i = 1 \/ ~IsUpperAlnum(t[i - 1]))
        /\ (i + Len(s) > Len(t) \/ ~IsUpperAlnum(t[i + Len(s)]))

_corporate_score(text) ==
    IF text = <<>> THEN 0
    ELSE LET t == Upper(text)
         IN (IF RegexHit(t, EXCLUDE_BRANDS) THEN 3 ELSE 0)
            + (IF RegexHit(t, EXCLUDE_KEYWORDS) THEN 2 ELSE 0)
            + (IF \E s \in CORPORATE_SUFFIXES : InTokens(t, s) THEN 2 ELSE 0)

\* str.istitle() on the texts of the model: an upper-case letter first, no
\* upper-case letter right after a letter, no lower-case letter elsewhere
istitle(s) ==
    /\ \E i \in DOMAIN s : s[i] \in Range(UpperLetters)
    /\ \A i \in DOMAIN s :
          LET after == i > 1 /\ s[i - 1] \in Range(UpperLetters) \cup Range(LowerLetters)
          IN /\ s[i] \in Range(UpperLetters) => ~after
             /\ s[i] \in Range(LowerLetters) => after

\* the score of one row without the hard rule of lines 373-382
CorporateRowScoreOnly(full, first, last) ==
    _corporate_score(full) + _corporate_score(first \o <<" ">> \o last)
    - (IF first # <<>> /\ last # <<>> /\ istitle(first) /\ istitle(last) THEN 3 ELSE 0)

\* the score of one row in filter_corporate (lines 358-384)
CorporateRowScore(full, first, last) ==
    LET text_full == full
        text_first_last == first \o <<" ">> \o last
        person_like == first # <<>> /\ last # <<>> /\ istitle(first) /\ istitle(last)
        s == _corporate_score(text_full) + _corporate_score(text_first_last)
             - (IF person_like THEN 3 ELSE 0)
        name_fields_up == {Upper(text_full), Upper(text_first_last)}
        oem_hit == \E f \in name_fields_up : \E tok \in EXCLUDE_OEMS : Contains(f, tok)
        brand_hit == \E f \in name_fields_up : \E tok \in EXCLUDE_BRANDS : Contains(f, tok)
        keyword_hit == \E f \in name_fields_up : \E tok \in EXCLUDE_KEYWORDS : Contains(f, tok)
        suffix_hit == \E f \in name_fields_up : \E suf \in CORPORATE_SUFFIXES : InTokens(f, suf)
    IN IF oem_hit \/ brand_hit \/ keyword_hit \/ suffix_hit THEN 999 ELSE s

\* df_can.loc[keep]: the table of the kept rows, in order, with their labels
WithRows(df, rows) == [cols |-> df.cols, rows |-> rows]

\* a column of the frame, or the column of "" that stands in for a missing one
TextCell(cols, r, c) == IF c \in cols THEN _safe_str(r[c]) ELSE <<>>

\* lines 352-354, 358-384, 385-387
filter_corporate(df) ==
    LET Keep(r) == CorporateRowScore(TextCell(df.cols, r, "FullName"),
                                     TextCell(df.cols, r, "First_Name"),
                                     TextCell(df.cols, r, "Last_Name")) < 3
    IN WithRows(df, SelectSeq(df.rows, Keep))

filter_name_present(df) ==
    IF "Last_Name" \notin df.cols THEN df
    ELSE LET Keep(r) == _safe_str(r.Last_Name) # <<>> IN WithRows(df, SelectSeq(df.rows, Keep))

\* Address2 is empty in the model, so a1_eff is Address1
filter_address_present(df) ==
    IF Cardinality({"City", "State", "Zip"} \cap df.cols) < 3
       /\ "Address1" \notin df.cols /\ "Address2" \notin df.cols
    THEN df
    ELSE LET Cell(r, c) == IF c \in df.cols THEN _safe_str(r[c]) ELSE <<>>
             Keep(r) == /\ Cell(r, "Address1") # <<>> /\ Cell(r, "City") # <<>>
                        /\ Cell(r, "State") # <<>> /\ Cell(r, "Zip") # <<>>
         IN WithRows(df, SelectSeq(df.rows, Keep))

filter_out_of_state(df, home_state) ==
    IF "State" \notin df.cols THEN df
    ELSE LET Keep(r) == Upper(_safe_str(r.State)) = Upper(home_state)
         IN WithRows(df, SelectSeq(df.rows, Keep))

\* to_int of filter_model_year on the unsigned decimal integers; -1 stands
\* for its None
to_int(v) == LET t == Strip(str(v)) IN IF IsNumeric(t) THEN DigitsValue(t) ELSE -1

\* the comparisons with >= and <= in the place of > and <
filter_model_year_or_equal(df, operator, year) ==
    IF "Year" \notin df.cols THEN df
    ELSE LET Keep(r) ==
                 /\ to_int(r.Year) # -1
                 /\ CASE operator = "newer" -> to_int(r.Year) >= year
                      [] operator = "older" -> to_int(r.Year) <= year
                      [] OTHER -> to_int(r.Year) = year
         IN WithRows(df, SelectSeq(df.rows, Keep))

\* a comparison with None or NaN is False
filter_model_year(df, operator, year) ==
    IF "Year" \notin df.cols THEN df
    ELSE LET Keep(r) ==
                 /\ to_int(r.Year) # -1
                 /\ CASE operator = "newer" -> to_int(r.Year) > year
                      [] operator = "older" -> to_int(r.Year) < year
                      [] OTHER -> to_int(r.Year) = year
         IN WithRows(df, SelectSeq(df.rows, Keep))

\* pd.Timestamp.today(), on the scale of the dates of the pipeline (months)
Today == 40

filter_delivery_age(df, months) ==
    LET cutoff == Today - months
        Keep(r) == /\ _effective_date_series(df.cols, r) # 0
                   /\ _effective_date_series(df.cols, r) <= cutoff
    IN WithRows(df, SelectSeq(df.rows, Keep))

\* to_float of filter_distance on the unsigned decimal integers; -1 stands
\* for its None
to_float(v) ==
    LET NotComma(c) == c # ","
        t == SelectSeq(str(v), NotComma)
    IN IF IsNumeric(Strip(t)) THEN DigitsValue(Strip(t)) ELSE -1

\* filter_distance without its valid_ratio gate
filter_distance_ungated(df, max_miles) ==
    IF "Distance" \notin df.cols THEN df
    ELSE LET miles(r) == IF to_float(r.Distance) > 1000 THEN -1 ELSE to_float(r.Distance)
             Keep(r) == miles(r) = -1 \/ miles(r) <= max_miles
         IN WithRows(df, SelectSeq(df.rows, Keep))

\* an empty table has a valid_ratio of NaN, which is not below 0.05
filter_distance(df, max_miles) ==
    IF "Distance" \notin df.cols THEN df
    ELSE LET miles(r) == IF to_float(r.Distance) > 1000 THEN -1 ELSE to_float(r.Distance)
             Valid(r) == miles(r) # -1
             valid == Len(SelectSeq(df.rows, Valid))
             Keep(r) == miles(r) = -1 \/ miles(r) <= max_miles
         IN IF Len(df.rows) > 0 /\ 100 * valid < 5 * Len(df.rows) THEN df
            ELSE WithRows(df, SelectSeq(df.rows, Keep))

\* the canonical fields carried by the model
CANONICAL_OUTPUT_ORDER ==
    <<"Store", "Deal_Number", "CustomerID", "Last_Name", "First_Name", "FullName",
      "Email", "Home_Phone", "Mobile_Phone", "Work_Phone", "Phone2", "Address1",
      "Address2", "City", "State", "Zip", "VIN", "Make", "Model", "Year",
      "DeliveryDate", "Delivery_Miles", "Distance", "Vehicle_Condition", "Mileage",
      "Term">>

RunCols == CanonCols \cup {"First_Name", "Last_Name", "FullName", "Year", "Distance"}

\* the fields a raw table of the pipeline runs has a source column for
RawCols == RunCols \ {"First_Name", "FullName"}

\* coerce_str of a source column, "" where the field is not mapped
MappedText(raw, r, c) == IF c \in raw.cols THEN coerce_str(r[c]) ELSE <<>>

\* constructed of derive_fullname for one row
constructed(raw, r) ==
    Strip(CollapseSpace(MappedText(raw, r, "First_Name") \o <<" ">>
                        \o MappedText(raw, r, "Last_Name")))

\* derive_fullname: First + Last, and the FullName column only when that is
\* empty in every row
derive_fullname(raw) ==
    IF "FullName" \in raw.cols /\ \A i \in DOMAIN raw.rows : constructed(raw, raw.rows[i]) = <<>>
    THEN [i \in DOMAIN raw.rows |-> coerce_str(raw.rows[i].FullName)]
    ELSE [i \in DOMAIN raw.rows |-> coerce_str(constructed(raw, raw.rows[i]))]

\* build_canonical_frame: every canonical column is created, from its source
\* column if the field is mapped and from a constant otherwise; __ROWNUM,
\* which _read_any adds to every raw table, is carried over (idx holds it)
build_canonical_frame(raw) ==
    LET Mapped(c) == c \in raw.cols
        Text(r, c) == IF Mapped(c) THEN coerce_str(r[c]) ELSE <<>>
        Cell(r, c) == IF Mapped(c) THEN r[c] ELSE None
    IN [cols |-> RunCols \cup {"__ROWNUM"},
        rows |-> [i \in DOMAIN raw.rows |->
                    LET r == raw.rows[i]
                    IN [idx |-> r.idx,
                        First_Name |-> Text(r, "First_Name"),
                        Last_Name |-> Text(r, "Last_Name"),
                        FullName |-> derive_fullname(raw)[i],
                        Address1 |-> Text(r, "Address1"),
                        City |-> Text(r, "City"),
                        State |-> normalize_state_value(Text(r, "State")),
                        Zip |-> Text(r, "Zip"),
                        VIN |-> Cell(r, "VIN"),
                        Year |-> Cell(r, "Year"),
                        Deal_Number |-> Text(r, "Deal_Number"),
                        Distance |-> Cell(r, "Distance"),
                        DeliveryDate |-> IF Mapped("DeliveryDate") THEN r.DeliveryDate
                                         ELSE 0]]]

PRESETS ==
    [delete_duplicates |-> TRUE,
     address_present |-> TRUE,
     name_present |-> FALSE,
     delete_out_of_state |-> FALSE,
     home_state |-> <<"C", "A">>,
     model_year_filter |-> [enabled |-> TRUE, min_year |-> 2013, max_year |-> 2024],
     delivery_age_filter |-> [enabled |-> TRUE, months |-> 18],
     distance_filter |-> [enabled |-> TRUE, max_miles |-> 100],
     exclude_corporate |-> TRUE]

\* the presets of the repository and the other settings of its three on/off
\* stage switches
PresetChoices ==
    {[PRESETS EXCEPT !.name_present = n, !.address_present = a,
                     !.delete_out_of_state = o] : n, a, o \in BOOLEAN}

(***************************************************************************)
(* Raw tables of the pipeline                                              *)
(***************************************************************************)
MaxRunRows == 2

Year2012 == <<"2", "0", "1", "2">>
Year2013 == <<"2", "0", "1", "3">>
Year2024 == <<"2", "0", "2", "4">>
Year2025 == <<"2", "0", "2", "5">>
Miles50 == <<"5", "0">>
Miles150 == <<"1", "5", "0">>
Miles2000 == <<"2", ",", "0", "0", "0">>

RunRow(last, a, vin, year, date, miles) ==
    [Last_Name |-> last, Address1 |-> a.Address1, City |-> a.City, State |-> a.State,
     Zip |-> a.Zip, VIN |-> vin, Deal_Number |-> NoText, Year |-> year,
     DeliveryDate |-> date, Distance |-> miles]

\* the rows a raw table is made of: an in-window sale and rows that differ
\* from it in what one stage looks at
RunRowVals ==
    { RunRow(Lee, RunAddrA, VinA, Year2013, 1, Miles50),
      RunRow(Lee, RunAddrA, VinA, Year2013, 2, Miles50),
      RunRow(Lee, RunAddrB, VinB, Year2024, 1, Miles50),
      RunRow(NoText, RunAddrB, VinB, Year2024, 1, Miles50),
      RunRow(AcmeLLC, RunAddrB, VinB, Year2024, 1, Miles50),
      RunRow(Lee, RunAddrNV, VinB, Year2024, 1, Miles50),
      RunRow(Lee, RunAddrB, VinB, Year2012, 1, Miles50),
      RunRow(Lee, RunAddrB, VinB, Year2025, 1, Miles50),
      RunRow(Lee, RunAddrB, VinB, NoText, 1, Miles50),
      RunRow(Lee, RunAddrB, VinB, Year2024, 30, Miles50),
      RunRow(Lee, RunAddrB, VinB, Year2024, 0, Miles50),
      RunRow(Lee, RunAddrB, VinB, Year2024, 1, Miles150),
      RunRow(Lee, RunAddrB, VinB, Year2024, 1, Miles2000),
      RunRow(Lee, RunAddrB, VinB, Year2024, 1, NoText),
      RunRow(Lee, RunAddrA, VinBad17, Year2013, 1, Miles50),
      RunRow(Lee, RunAddrB, VinBad17, Year2013, 1, Miles50) }

\* the fields a stage of the pipeline requires; a raw table may lack any one
\* of them, or all
StageFields == {"Last_Name", "State", "Year", "DeliveryDate", "Distance"}

RunColChoices ==
    {RawCols} \cup {RawCols \ {c} : c \in StageFields} \cup {RawCols \ StageFields}

\* raw is a table of 1..MaxRunRows rows with the columns cols, labelled from 0
IsRawTable(raw, cols) ==
    \E n \in 1..MaxRunRows : \E f \in [1..n -> RunRowVals] :
        raw = [cols |-> cols,
               rows |-> [i \in 1..n |-> [c \in cols \cup {"idx"} |->
                            IF c = "idx" THEN i - 1 ELSE f[i][c]]]]

(***************************************************************************)
(* State: one run of run_pipeline.  df_can is the raw table until the      *)
(* canonical frame is built and the canonical frame (can_df) afterwards;   *)
(* locals holds the presets, the raw table and the steps list.             *)
(***************************************************************************)
InitRun ==
    /\ \E cols \in RunColChoices : IsRawTable(df_can, cols)
    /\ pc = "build"
    /\ \E p \in PresetChoices : locals = [presets |-> p, raw |-> df_can, steps |-> <<>>]
    /\ result = NoResult

\* the mapping of detect_schema
mapping == locals.raw.cols

\* one stage that runs whether enabled or not
StageAlways(at, enabled, name, out, next) ==
    /\ pc = at
    /\ df_can' = out
    /\ locals' = [locals EXCEPT !.steps = Append(@, [name |-> name,
                                                     before |-> Len(df_can.rows),
                                                     after |-> Len(out.rows)])]
    /\ pc' = next
    /\ UNCHANGED result

\* one stage: when enabled, can_df becomes out and the step is recorded
Stage(at, enabled, name, out, next) ==
    /\ pc = at
    /\ df_can' = IF enabled THEN out ELSE df_can
    /\ locals' = IF enabled
                 THEN [locals EXCEPT !.steps = Append(@, [name |-> name,
                                                          before |-> Len(df_can.rows),
                                                          after |-> Len(out.rows)])]
                 ELSE locals
    /\ pc' = next
    /\ UNCHANGED result

\* lines 56, 67
BuildCanonical ==
    /\ pc = "build"
    /\ df_can' = [build_canonical_frame(df_can) EXCEPT !.cols = @ \cup {"___IDX_ALL"}]
    /\ locals' = [locals EXCEPT !.steps = <<[name |-> "initial", before |-> Len(df_can.rows),
                                            after |-> Len(df_can.rows)]>>]
    /\ pc' = "exclude_corporate"
    /\ UNCHANGED result

\* lines 73-81
ExcludeCorporate ==
    Stage("exclude_corporate", locals.presets.exclude_corporate, "exclude_corporate",
          filter_corporate(df_can), "name_present")

\* lines 86-97
NamePresent ==
    Stage("name_present", locals.presets.name_present, "name_present",
          filter_name_present(df_can), "address_present")

\* lines 100-132
AddressPresent ==
    Stage("address_present", locals.presets.address_present, "address_present",
          filter_address_present(df_can), "out_of_state")

\* lines 135-142
OutOfState ==
    Stage("out_of_state", locals.presets.delete_out_of_state, "out_of_state",
          filter_out_of_state(df_can, locals.presets.home_state), "model_year")

\* lines 146-160: > (min_year - 1), then < (max_year + 1)
ModelYear ==
    LET my == locals.presets.model_year_filter
    IN Stage("model_year", my.enabled, "model_year_window",
             filter_model_year(filter_model_year(df_can, "newer", my.min_year - 1),
                               "older", my.max_year + 1),
             "delivery_age")

\* lines 163-182
DeliveryAge ==
    LET da == locals.presets.delivery_age_filter
    IN Stage("delivery_age", da.enabled, "delivery_age",
             filter_delivery_age(df_can, da.months), "distance")

\* lines 185-193
Distance ==
    LET df_conf == locals.presets.distance_filter
    IN Stage("distance", df_conf.enabled, "distance",
             filter_distance(df_can, df_conf.max_miles), "dedupe")

\* lines 216-262: out is what delete_duplicates gave; an exception ends the run
DedupeStep(out) ==
    IF out.raised # ""
    THEN /\ pc' = "run_raised"
         /\ result' = out
         /\ UNCHANGED <<df_can, locals>>
    ELSE /\ pc' = "output"
         /\ df_can' = out.table
         /\ locals' = [locals EXCEPT !.steps =
                          Append(@, [name |-> "dedupe",
                                     before |-> Len(df_can.rows),
                                     after |-> Len(out.table.rows)])]
         /\ UNCHANGED result

\* lines 210-262
Dedupe ==
    /\ pc = "dedupe"
    /\ IF locals.presets.delete_duplicates
       THEN DedupeStep(delete_duplicates(df_can))
       ELSE pc' = "output" /\ UNCHANGED <<df_can, locals, result>>

\* line 265: the columns of can_df, in the canonical order
present(df) ==
    LET InFrame(c) == c \in df.cols
    IN SelectSeq(CANONICAL_OUTPUT_ORDER, InFrame)

\* line 266: can_df.loc[:, present]
out_df(df) ==
    [cols |-> Range(present(df)),
     rows |-> [i \in DOMAIN df.rows |-> [c \in Range(present(df)) |-> df.rows[i][c]]]]

\* lines 264-266 and the return: the columns of the canonical order
Output ==
    /\ pc = "output"
    /\ result' = [table |-> out_df(df_can),
                  columns |-> present(df_can),
                  removed |-> Len(locals.raw.rows) - Len(df_can.rows),
                  raised |-> ""]
    /\ pc' = "run_done"
    /\ UNCHANGED <<df_can, locals>>

NextRun ==
    \/ BuildCanonical
    \/ ExcludeCorporate
    \/ NamePresent
    \/ AddressPresent
    \/ OutOfState
    \/ ModelYear
    \/ DeliveryAge
    \/ Distance
    \/ Dedupe
    \/ Output

SpecRun == InitRun /\ [][NextRun]_vars

\* the stage at pc and the canonical field it requires
StageField ==
    [name_present |-> "Last_Name", out_of_state |-> "State", model_year |-> "Year",
     delivery_age |-> "DeliveryDate", distance |-> "Distance"]

\* the trimmed, upper-cased VIN of an output row (verify_dedup.py l.73-77)
VinUpperOf(r) == Upper(Strip(str(fillna(r.VIN))))

\* C9: a stage whose required field (Last_Name, State, Year, a delivery
\* date, Distance) has no mapped source column removes no row and raises
\* nothing.
C9_UnmappedStageIsNoOp ==
    [][(pc \in DOMAIN StageField /\ StageField[pc] \notin mapping)
       => (df_can'.rows = df_can.rows /\ pc' # "run_raised")]_vars

\* C5: in the final output of a run with delete_duplicates enabled no two
\* rows have the same trimmed, upper-cased VIN of length 17.
C5_NoDuplicateVin17 ==
    (pc = "run_done" /\ locals.presets.delete_duplicates) =>
        \A i, j \in DOMAIN result.table.rows :
            (i # j /\ Len(VinUpperOf(result.table.rows[i])) = VinLength)
            => VinUpperOf(result.table.rows[i]) # VinUpperOf(result.table.rows[j])

(***************************************************************************)
(* run_pipeline up to its model-year stage, on raw tables that differ in   *)
(* their Year column, under two windows.                                   *)
(***************************************************************************)
MaxYearRows == 3

YearVals == {Year2012, Year2013, Year2024, Year2025, NoText}

Windows == {<<2013, 2024>>, <<2024, 2024>>}

IsYearTable(raw, cols) ==
    \E n \in 1..MaxYearRows : \E f \in [1..n -> YearVals] :
        raw = [cols |-> cols,
               rows |-> [i \in 1..n |-> [c \in cols \cup {"idx"} |->
                            IF c = "idx" THEN i - 1
                            ELSE RunRow(Lee, RunAddrA, VinA, f[i], 1, Miles50)[c]]]]

InitYear ==
    /\ \E cols \in {RawCols, RawCols \ {"Year"}} : IsYearTable(df_can, cols)
    /\ pc = "build"
    /\ \E w \in Windows :
          locals = [presets |-> [PRESETS EXCEPT !.model_year_filter.min_year = w[1],
                                               !.model_year_filter.max_year = w[2]],
                    raw |-> df_can, steps |-> <<>>]
    /\ result = NoResult

NextYear ==
    \/ BuildCanonical
    \/ ExcludeCorporate
    \/ NamePresent
    \/ AddressPresent
    \/ OutOfState
    \/ ModelYear

SpecYear == InitYear /\ [][NextYear]_vars

\* Year is the text of an unsigned decimal integer of the window lo..hi
YearInWindow(r, lo, hi) ==
    /\ IsNumeric(Strip(str(r.Year)))
    /\ lo <= DigitsValue(Strip(str(r.Year)))
    /\ DigitsValue(Strip(str(r.Year))) <= hi

RowInPresetWindow(r) ==
    YearInWindow(r, locals.presets.model_year_filter.min_year,
                 locals.presets.model_year_filter.max_year)

\* C11: with the model-year window [min, max] enabled, the stage keeps
\* exactly the rows whose Year parses as an integer y with min <= y <= max
\* and removes every other row, a Year that does not parse included.
C11_ModelYearWindow ==
    [][(pc = "model_year" /\ locals.presets.model_year_filter.enabled)
       => df_can'.rows = SelectSeq(df_can.rows, RowInPresetWindow)]_vars

\* the stage has kept a row of the year 2013 and removed one of 2012
C11_Witness ==
    /\ pc = "delivery_age"
    /\ locals.steps[Len(locals.steps)] =
          [name |-> "model_year_window", before |-> 2, after |-> 1]
    /\ \E r \in Range(df_can.rows) : r.Year = Year2013
    /\ \E q \in Range(locals.raw.rows) :
          /\ "Year" \in mapping /\ q.Year = Year2012
          /\ \A r \in Range(df_can.rows) : r.idx # q.idx

(***************************************************************************)
(* One call of filter_distance(df_can, max_miles) on a table of many rows  *)
(* without a valid distance and a few rows with one.  df_can is the        *)
(* argument, locals.max_miles the threshold, result.table what the call    *)
(* returned.                                                               *)
(***************************************************************************)
MaxPad == 20
MaxValid == 2

Miles1000 == <<"1", ",", "0", "0", "0">>

\* distances that are not valid: missing, empty, above 1000
PadVals == {None, NoText, Miles2000}

\* valid distances
ValidVals == {Miles50, Miles150, Miles1000}

MaxMilesChoices == {50, 100}

DistanceRows(texts) ==
    [i \in DOMAIN texts |-> [idx |-> i - 1, Distance |-> texts[i]]]

Repeat(v, n) == [i \in 1..n |-> v]

IsDistanceTable(df) ==
    \E n \in 0..MaxPad : \E p \in PadVals : \E k \in 0..MaxValid :
    \E f \in [1..k -> ValidVals] : \E front \in BOOLEAN :
        df = [cols |-> {"Distance"},
              rows |-> DistanceRows(IF front THEN f \o Repeat(p, n)
                                    ELSE Repeat(p, n) \o f)]

InitDistance ==
    /\ IsDistanceTable(df_can)
    /\ pc = "filter_distance"
    /\ \E m \in MaxMilesChoices : locals = [max_miles |-> m]
    /\ result = NoResult

CallFilterDistance ==
    /\ pc = "filter_distance"
    /\ result' = [table |-> filter_distance(df_can, locals.max_miles),
                  removed |-> Len(df_can.rows)
                              - Len(filter_distance(df_can, locals.max_miles).rows),
                  raised |-> ""]
    /\ pc' = "distance_returned"
    /\ UNCHANGED <<df_can, locals>>

NextDistance == CallFilterDistance

SpecDistance == InitDistance /\ [][NextDistance]_vars

\* a distance is valid when it parses as a number and is at most 1000
DistanceParses(r) ==
    LET NotComma(c) == c # ","
    IN IsNumeric(Strip(SelectSeq(str(r.Distance), NotComma)))

DistanceNumber(r) ==
    LET NotComma(c) == c # ","
    IN DigitsValue(Strip(SelectSeq(str(r.Distance), NotComma)))

DistanceValid(r) == DistanceParses(r) /\ DistanceNumber(r) <= 1000

ValidCount == Len(SelectSeq(df_can.rows, DistanceValid))

NotTooFar(r) == ~(DistanceValid(r) /\ DistanceNumber(r) > locals.max_miles)

\* C12: if fewer than 5% of the rows have a valid distance filter_distance
\* returns the table unchanged; otherwise it removes exactly the rows with
\* a valid distance greater than max_miles and keeps every row whose
\* distance is missing, unparseable or above 1000.
C12_DistanceFilter ==
    pc = "distance_returned" =>
        IF 20 * ValidCount < Len(df_can.rows)
        THEN result.table = df_can
        ELSE result.table.rows = SelectSeq(df_can.rows, NotTooFar)

\* a row beyond max_miles among more than twenty times as many rows without
\* a valid distance was kept by the gate
C12_WitnessGate ==
    /\ pc = "distance_returned"
    /\ 20 * ValidCount < Len(df_can.rows)
    /\ \E r \in Range(result.table.rows) :
          DistanceValid(r) /\ DistanceNumber(r) > locals.max_miles

\* the gate is passed: a row beyond max_miles was removed, a row above 1000
\* miles and a row within max_miles stayed
C12_Witness ==
    /\ pc = "distance_returned"
    /\ ~(20 * ValidCount < Len(df_can.rows))
    /\ Len(result.table.rows) < Len(df_can.rows)
    /\ \E r \in Range(result.table.rows) : r.Distance = Miles2000
    /\ \E r \in Range(result.table.rows) : DistanceValid(r)

(***************************************************************************)
(* The first two steps of run_pipeline on raw tables that differ in their  *)
(* name columns: build_canonical_frame, then filter_corporate.             *)
(***************************************************************************)
MaxCorpRows == 2

ABCMotorsLLC == <<"A", "B", "C", " ", "M", "o", "t", "o", "r", "s", " ", "L", "L", "C">>
JohnSmith == <<"J", "o", "h", "n", " ", "S", "m", "i", "t", "h">>
John == <<"J", "o", "h", "n">>
Smith == <<"S", "m", "i", "t", "h">>
JOHN == <<"J", "O", "H", "N">>
SMITH == <<"S", "M", "I", "T", "H">>
Tom == <<"T", "o", "m">>
Davis == <<"D", "a", "v", "i", "s">>
Ford == <<"F", "o", "r", "d">>

CorpRow(full, first, last) ==
    [FullName |-> full, First_Name |-> first]
    @@ RunRow(last, RunAddrA, VinA, Year2013, 1, Miles50)

CorpRowVals ==
    { CorpRow(ABCMotorsLLC, NoText, NoText),
      CorpRow(JohnSmith, John, Smith),
      CorpRow(ABCMotorsLLC, John, Smith),
      CorpRow(NoText, JOHN, SMITH),
      CorpRow(NoText, Tom, Davis),
      CorpRow(NoText, John, Davis),
      CorpRow(NoText, John, Ford),
      CorpRow(NoText, NoText, AcmeLLC),
      CorpRow(NoText, NoText, Lee) }

\* the name columns a raw table may have
NameColChoices ==
    { {"FullName"}, {"First_Name", "Last_Name"}, {"Last_Name"},
      {"FullName", "First_Name", "Last_Name"}, {} }

IsCorporateTable(raw, cols) ==
    \E n \in 1..MaxCorpRows : \E f \in [1..n -> CorpRowVals] :
        raw = [cols |-> cols,
               rows |-> [i \in 1..n |-> [c \in cols \cup {"idx"} |->
                            IF c = "idx" THEN i - 1 ELSE f[i][c]]]]

InitCorporate ==
    /\ \E names \in NameColChoices :
          IsCorporateTable(df_can, (RawCols \ {"Last_Name"}) \cup names)
    /\ pc = "build"
    /\ locals = [presets |-> PRESETS, raw |-> df_can, steps |-> <<>>]
    /\ result = NoResult

NextCorporate ==
    \/ BuildCanonical
    \/ ExcludeCorporate

SpecCorporate == InitCorporate /\ [][NextCorporate]_vars

\* lines 376-381: a brand, OEM or keyword inside the upper-cased text, or a
\* corporate suffix among its tokens
HasHit(f) ==
    \/ \E tok \in EXCLUDE_OEMS \cup EXCLUDE_BRANDS \cup EXCLUDE_KEYWORDS : Contains(f, tok)
    \/ \E suf \in CORPORATE_SUFFIXES : InTokens(f, suf)

NameHit(r) ==
    HasHit(Upper(r.FullName)) \/ HasHit(Upper(r.First_Name \o <<" ">> \o r.Last_Name))

TitleCasedNames(r) == istitle(r.First_Name) /\ istitle(r.Last_Name)

C13_WitnessKept ==
    /\ pc = "name_present"
    /\ \E r \in Range(df_can.rows) : r.First_Name = John /\ r.Last_Name = Smith
    /\ \E r \in Range(build_canonical_frame(locals.raw).rows) :
          /\ r.Last_Name = Ford
          /\ r \notin Range(df_can.rows)

\* a is b with some elements left out
RECURSIVE IsSubsequence(_, _)
IsSubsequence(a, b) ==
    IF a = <<>> THEN TRUE
    ELSE IF b = <<>> THEN FALSE
    ELSE IF Head(a) = Head(b) THEN IsSubsequence(Tail(a), Tail(b))
    ELSE IsSubsequence(a, Tail(b))

HelperColumns == {"__ROWNUM", "___IDX_ALL", "___IDX"}

\* a cell that holds a value: not None, not NaT, not ""
Populated(v) == v # None /\ v # NoText /\ v # 0

\* the output columns follow the canonical order and none is a helper column
OutputOrderedNoHelper ==
    pc = "run_done" =>
        /\ IsSubsequence(result.columns, CANONICAL_OUTPUT_ORDER)
        /\ Range(result.columns) \cap HelperColumns = {}

\* C14: the columns of the final output are a subsequence of the canonical
\* order, none is a helper column, each is populated in at least one row,
\* and a canonical field without a mapped source is not among them.
C14_OutputColumns ==
    pc = "run_done" =>
        /\ IsSubsequence(result.columns, CANONICAL_OUTPUT_ORDER)
        /\ Range(result.columns) \cap HelperColumns = {}
        /\ \A c \in Range(result.columns) :
              /\ \E r \in Range(result.table.rows) : Populated(r[c])
              /\ c \in mapping \/ c \in {"First_Name", "FullName"}

(***************************************************************************)
(* Runs of run_pipeline under every setting of the eight stage switches of *)
(* PRESETS.                                                                *)
(***************************************************************************)
MaxToggleRows == 2

TogglePresets ==
    {[PRESETS EXCEPT !.exclude_corporate = c, !.name_present = n,
                     !.address_present = a, !.delete_out_of_state = o,
                     !.model_year_filter.enabled = y,
                     !.delivery_age_filter.enabled = g,
                     !.distance_filter.enabled = d, !.delete_duplicates = u] :
        c, n, a, o, y, g, d, u \in BOOLEAN}

\* a sale that passes every filter, its duplicate, and two rows that fail
\* four filters each
ToggleRowVals ==
    { RunRow(Lee, RunAddrA, VinA, Year2013, 1, Miles50),
      RunRow(Lee, RunAddrA, VinA, Year2013, 2, Miles50),
      RunRow(AcmeLLC, RunAddrNV, VinB, Year2012, 1, Miles50),
      RunRow(NoText, RunAddrB, VinB, Year2024, 30, Miles150) }

IsToggleTable(raw) ==
    \E n \in 1..MaxToggleRows : \E f \in [1..n -> ToggleRowVals] :
        raw = [cols |-> RawCols,
               rows |-> [i \in 1..n |-> [c \in RawCols \cup {"idx"} |->
                            IF c = "idx" THEN i - 1 ELSE f[i][c]]]]

InitToggles ==
    /\ IsToggleTable(df_can)
    /\ pc = "build"
    /\ \E p \in TogglePresets : locals = [presets |-> p, raw |-> df_can, steps |-> <<>>]
    /\ result = NoResult

SpecToggles == InitToggles /\ [][NextRun]_vars

\* the stages in the order of run_pipeline, the switch of each and the name
\* it records in steps
StageOrder ==
    <<"exclude_corporate", "name_present", "address_present", "out_of_state",
      "model_year", "delivery_age", "distance", "dedupe">>

StageEnabled(p) ==
    [exclude_corporate |-> p.exclude_corporate, name_present |-> p.name_present,
     address_present |-> p.address_present, out_of_state |-> p.delete_out_of_state,
     model_year |-> p.model_year_filter.enabled,
     delivery_age |-> p.delivery_age_filter.enabled,
     distance |-> p.distance_filter.enabled, dedupe |-> p.delete_duplicates]

StepName(stage) == IF stage = "model_year" THEN "model_year_window" ELSE stage

StepNames(steps) == [i \in DOMAIN steps |-> steps[i].name]

EnabledStepNames(p) ==
    LET On(stage) == StageEnabled(p)[stage]
        enabled == SelectSeq(StageOrder, On)
    IN [i \in DOMAIN enabled |-> StepName(enabled[i])]

\* C15: under every setting of the stage switches the enabled stages run in
\* the order corporate exclusion, name presence, address presence,
\* out-of-state, model-year, delivery-age, distance, deduplication; a
\* disabled stage removes no row; no row is removed after deduplication.
C15_StageOrder ==
    [][/\ (pc \in Range(StageOrder) /\ ~StageEnabled(locals.presets)[pc])
          => (df_can' = df_can /\ locals'.steps = locals.steps)
       /\ (pc \in Range(StageOrder) /\ StageEnabled(locals.presets)[pc]
           /\ pc' # "run_raised")
          => StepNames(locals'.steps) = Append(StepNames(locals.steps), StepName(pc))
       /\ pc = "output"
          => (df_can' = df_can /\ Len(result'.table.rows) = Len(df_can.rows))
       /\ pc' = "run_done"
          => StepNames(locals'.steps)
             = <<"initial">> \o EnabledStepNames(locals.presets)]_vars

\* a run with the model-year stage switched off and deduplication on has
\* ended: a sale of 2012 is in the output and deduplication removed a row
C15_Witness ==
    /\ pc = "run_done"
    /\ ~locals.presets.model_year_filter.enabled
    /\ locals.presets.delete_duplicates /\ locals.presets.distance_filter.enabled
    /\ \E r \in Range(result.table.rows) : r.Year = Year2012
    /\ Len(result.table.rows) = 1 /\ Len(locals.raw.rows) = 2
    /\ locals.steps[Len(locals.steps)].name = "dedupe"
    /\ locals.steps[Len(locals.steps)].before = 2


(***************************************************************************)
(* constants.py: the tables of the detection                               *)
(***************************************************************************)
\* constants.SYNONYMS, the fields of this model
SYNONYMS ==
    "Last_Name" :>
        { <<"b", "u", "y", "e", "r", " ", "l", "a", "s", "t">>,
          <<"f", "a", "m", "i", "l", "y", "n", "a", "m", "e">>,
          <<"l", "a", "s", "t", " ", "n", "a", "m", "e">>, <<"l", "a", "s", "t", "n", "a", "m", "e">>,
          <<"p", "r", "i", "m", "a", "r", "y", " ", "l", "a", "s", "t">>,
          <<"s", "u", "r", "n", "a", "m", "e">> }
    @@ "Address1" :>
        { <<"a", "d", "d", "r", "1">>, <<"a", "d", "d", "r", "e", "s", "s">>,
          <<"a", "d", "d", "r", "e", "s", "s", " ", "l", "i", "n", "e", " ", "1">>,
          <<"a", "d", "d", "r", "e", "s", "s", "1">>,
          <<"a", "d", "d", "r", "e", "s", "s", "l", "i", "n", "e", "1">>,
          <<"c", "u", "s", "t", "o", "m", "e", "r", " ", "a", "d", "d", "r", "e", "s", "s">>,
          <<"c", "u", "s", "t", "o", "m", "e", "r", "a", "d", "d", "r", "e", "s", "s">>,
          <<"m", "a", "i", "l", "i", "n", "g", " ", "a", "d", "d", "r", "e", "s", "s">>,
          <<"p", "r", "i", "m", "a", "r", "y", " ", "a", "d", "d", "r", "e", "s", "s">>,
          <<"r", "e", "s", "i", "d", "e", "n", "t", "i", "a", "l", " ", "a", "d", "d", "r", "e", "s", "s">>,
          <<"s", "t", "r", "e", "e", "t">>, <<"s", "t", "r", "e", "e", "t", " ", "a", "d", "d", "r">>,
          <<"s", "t", "r", "e", "e", "t", "a", "d", "d", "r", "e", "s", "s">> }
    @@ "City" :>
        { <<"c", "i", "t", "y">>, <<"c", "i", "t", "y", " ", "n", "a", "m", "e">>,
          <<"c", "s", "z", " ", "c", "i", "t", "y">>, <<"l", "o", "c", "a", "l", "i", "t", "y">>,
          <<"m", "u", "n", "i", "c", "i", "p", "a", "l", "i", "t", "y">>, <<"t", "o", "w", "n">> }
    @@ "State" :>
        { <<"c", "s", "z", " ", "s", "t", "a", "t", "e">>, <<"p", "r", "o", "v", "i", "n", "c", "e">>,
          <<"r", "e", "g", "i", "o", "n">>, <<"s", "t">>, <<"s", "t", "a", "t", "e">>,
          <<"s", "t", "a", "t", "e", " ", "c", "o", "d", "e">>,
          <<"s", "t", "a", "t", "e", "/", "p", "r", "o", "v", "i", "n", "c", "e">> }
    @@ "Zip" :>
        { <<"c", "s", "z", " ", "z", "i", "p">>,
          <<"p", "o", "s", "t", "a", "l", " ", "c", "o", "d", "e">>,
          <<"p", "o", "s", "t", "a", "l", "c", "o", "d", "e">>,
          <<"p", "o", "s", "t", "c", "o", "d", "e">>, <<"z", "i", "p">>,
          <<"z", "i", "p", " ", "c", "o", "d", "e">>, <<"z", "i", "p", "5">>,
          <<"z", "i", "p", "c", "o", "d", "e">> }
    @@ "VIN" :>
        { <<"v", "e", "h", "i", "c", "l", "e", " ", "i", "d">>,
          <<"v", "e", "h", "i", "c", "l", "e", "i", "d">>, <<"v", "i", "n">>,
          <<"v", "i", "n", " ", "n", "u", "m", "b", "e", "r">> }
    @@ "DeliveryDate" :>
        { <<"d", "a", "t", "e">>, <<"d", "e", "l", "_", "d", "a", "t", "e">>,
          <<"d", "e", "l", "i", "v", "e", "r", "e", "d">>, <<"d", "e", "l", "i", "v", "e", "r", "y">>,
          <<"d", "e", "l", "i", "v", "e", "r", "y", "d", "a", "t", "e">>,
          <<"s", "a", "l", "e", "_", "d", "a", "t", "e">>, <<"s", "a", "l", "e", "d", "a", "t", "e">>,
          <<"s", "o", "l", "d", "_", "d", "a", "t", "e">>, <<"s", "o", "l", "d", "d", "a", "t", "e">> }

\* constants.NEGATIVE_KEYWORDS (the later entry of a repeated key)
NEGATIVE_KEYWORDS ==
    "Last_Name" :>
        { <<"c", "o">>, <<"c", "o", " ", "b", "u", "y", "e", "r">>,
          <<"c", "o", " ", "l", "a", "s", "t">>, <<"c", "o", "-", "b", "u", "y", "e", "r">>,
          <<"c", "o", "_", "l", "a", "s", "t">>, <<"c", "o", "b", "u", "y", "e", "r">>,
          <<"c", "o", "l", "a", "s", "t">> }
    @@ "Address1" :>
        { <<"a", "d", "d", "r", "2">>, <<"a", "d", "d", "r", "e", "s", "s", "2">>,
          <<"b", "a", "n", "k">>, <<"b", "i", "l", "l", "i", "n", "g">>,
          <<"f", "i", "n", "a", "n", "c", "e">>, <<"l", "i", "e", "n">>,
          <<"l", "i", "n", "e", " ", "2">>, <<"m", "a", "i", "l", "i", "n", "g">> }
    @@ "City" :>
        { <<"b", "a", "n", "k">>, <<"b", "i", "l", "l", "i", "n", "g">>, <<"b", "o", "d", "y">>,
          <<"c", "o", " ", "b", "u", "y", "e", "r">>, <<"c", "o", "-", "b", "u", "y", "e", "r">>,
          <<"c", "o", "b", "u", "y", "e", "r">>, <<"c", "o", "d", "e">>, <<"f", "i", "l", "e">>,
          <<"f", "i", "n", "a", "n", "c", "e">>, <<"f", "i", "r", "s", "t">>,
          <<"f", "u", "l", "l", " ", "n", "a", "m", "e">>, <<"f", "u", "l", "l", "n", "a", "m", "e">>,
          <<"l", "a", "s", "t">>, <<"l", "i", "e", "n">>, <<"m", "a", "i", "l", "i", "n", "g">>,
          <<"m", "o", "d", "e", "l">>, <<"n", "a", "m", "e">>, <<"s", "e", "r", "i", "e", "s">>,
          <<"s", "h", "i", "p", "p", "i", "n", "g">>, <<"s", "t", "a", "t", "u", "s">>,
          <<"s", "t", "o", "c", "k">>, <<"t", "r", "i", "m">>, <<"t", "y", "p", "e">>,
          <<"v", "i", "n">> }
    @@ "State" :>
        {}
    @@ "Zip" :>
        {}
    @@ "VIN" :>
        { <<"e", "x", "p", "l", "o", "s", "i", "o", "n">>, <<"f", "i", "l", "e">>,
          <<"m", "a", "k", "e">>, <<"m", "o", "d", "e", "l">>, <<"t", "1">>, <<"t", "2">>,
          <<"t", "r", "a", "d", "e">>, <<"t", "r", "a", "d", "e", " ", "1">>,
          <<"t", "r", "a", "d", "e", " ", "2">>, <<"t", "r", "a", "d", "e", "-", "i", "n">>,
          <<"t", "r", "a", "d", "e", "i", "n">>, <<"t", "y", "p", "e">> }
    @@ "DeliveryDate" :>
        {}

\* constants.POSITIVE_KEYWORDS
POSITIVE_KEYWORDS ==
    "Last_Name" :>
        {}
    @@ "Address1" :>
        { <<"a", "d", "d", "r", "1">>, <<"a", "d", "d", "r", "e", "s", "s", "1">>,
          <<"l", "i", "n", "e", " ", "1">>, <<"s", "t", "r", "e", "e", "t">> }
    @@ "City" :>
        {}
    @@ "State" :>
        {}
    @@ "Zip" :>
        {}
    @@ "VIN" :>
        {}
    @@ "DeliveryDate" :>
        {}

US_STATE_ABBR ==
    { <<"A", "K">>, <<"A", "L">>, <<"A", "R">>, <<"A", "Z">>, <<"C", "A">>, <<"C", "O">>,
      <<"C", "T">>, <<"D", "C">>, <<"D", "E">>, <<"F", "L">>, <<"G", "A">>, <<"H", "I">>,
      <<"I", "A">>, <<"I", "D">>, <<"I", "L">>, <<"I", "N">>, <<"K", "S">>, <<"K", "Y">>,
      <<"L", "A">>, <<"M", "A">>, <<"M", "D">>, <<"M", "E">>, <<"M", "I">>, <<"M", "N">>,
      <<"M", "O">>, <<"M", "S">>, <<"M", "T">>, <<"N", "C">>, <<"N", "D">>, <<"N", "E">>,
      <<"N", "H">>, <<"N", "J">>, <<"N", "M">>, <<"N", "V">>, <<"N", "Y">>, <<"O", "H">>,
      <<"O", "K">>, <<"O", "R">>, <<"P", "A">>, <<"R", "I">>, <<"S", "C">>, <<"S", "D">>,
      <<"T", "N">>, <<"T", "X">>, <<"U", "T">>, <<"V", "A">>, <<"V", "T">>, <<"W", "A">>,
      <<"W", "I">>, <<"W", "V">>, <<"W", "Y">> }

STREET_SUFFIXES ==
    { <<"S", "T">>, <<"S", "T", "R", "E", "E", "T">>, <<"R", "D">>, <<"R", "O", "A", "D">>,
      <<"A", "V", "E">>, <<"A", "V">>, <<"A", "V", "E", "N", "U", "E">>, <<"B", "L", "V", "D">>,
      <<"D", "R">>, <<"D", "R", "I", "V", "E">>, <<"L", "N">>, <<"L", "A", "N", "E">>,
      <<"C", "T">>, <<"C", "O", "U", "R", "T">>, <<"H", "W", "Y">>,
      <<"H", "I", "G", "H", "W", "A", "Y">>, <<"P", "K", "W", "Y">>, <<"W", "A", "Y">>,
      <<"T", "E", "R">>, <<"T", "E", "R", "R", "A", "C", "E">>, <<"P", "L">>,
      <<"P", "L", "A", "C", "E">>, <<"C", "I", "R">>, <<"C", "I", "R", "C", "L", "E">>,
      <<"T", "R", "L">>, <<"T", "R", "A", "I", "L">>, <<"L", "O", "O", "P">>, <<"B", "N", "D">>,
      <<"B", "E", "N", "D">>, <<"C", "V">>, <<"C", "O", "V", "E">>, <<"C", "M", "N">>,
      <<"C", "O", "M", "M", "O", "N", "S">>, <<"S", "Q">>, <<"S", "Q", "U", "A", "R", "E">>,
      <<"R", "U", "N">>, <<"P", "A", "S", "S">>, <<"A", "L", "Y">>, <<"A", "L", "L", "E", "Y">>,
      <<"X", "I", "N", "G">>, <<"C", "R", "O", "S", "S", "I", "N", "G">>, <<"H", "L">>,
      <<"H", "I", "L", "L">>, <<"H", "O", "L", "W">>, <<"H", "O", "L", "L", "O", "W">>,
      <<"M", "D", "W">>, <<"M", "E", "A", "D", "O", "W">>, <<"R", "T", "E">>,
      <<"R", "O", "U", "T", "E">>, <<"V", "L", "G">>, <<"V", "I", "L", "L", "A", "G", "E">>,
      <<"R", "I", "V">>, <<"R", "I", "V", "E", "R">>, <<"C", "R", "K">>,
      <<"C", "R", "E", "E", "K">>, <<"G", "R", "V">>, <<"G", "R", "O", "V", "E">>,
      <<"G", "D", "N", "S">>, <<"G", "A", "R", "D", "E", "N", "S">>, <<"I", "S">>,
      <<"I", "S", "L", "A", "N", "D">>, <<"L", "N", "D", "G">>,
      <<"L", "A", "N", "D", "I", "N", "G">>, <<"L", "K">>, <<"L", "A", "K", "E">>,
      <<"L", "G", "T">>, <<"L", "I", "G", "H", "T">>, <<"M", "T", "N">>,
      <<"M", "O", "U", "N", "T", "A", "I", "N">>, <<"P", "R">>,
      <<"P", "R", "A", "I", "R", "I", "E">>, <<"P", "T">>, <<"P", "O", "I", "N", "T">>,
      <<"R", "D", "G">>, <<"R", "I", "D", "G", "E">>, <<"S", "T", "A">>,
      <<"S", "T", "A", "T", "I", "O", "N">>, <<"V", "I", "S">>, <<"V", "I", "S", "T", "A">> }

DELIVERYDATE_PRECEDENCE ==
    { <<"d", "e", "l", "_", "d", "a", "t", "e">>, <<"s", "o", "l", "d", "_", "d", "a", "t", "e">>,
      <<"s", "a", "l", "e", "_", "d", "a", "t", "e">>,
      <<"d", "e", "l", "i", "v", "e", "r", "y", "d", "a", "t", "e">>, <<"d", "a", "t", "e">> }

VIN_EXPLOSION_SYNONYMS ==
    { <<"m", "u", "l", "t", "i", " ", "v", "i", "n">>, <<"m", "u", "l", "t", "i", "v", "i", "n">>,
      <<"v", "i", "n", " ", "b", "a", "t", "c", "h">>, <<"v", "i", "n", " ", "c", "s", "v">>,
      <<"v", "i", "n", " ", "d", "e", "l", "i", "m">>,
      <<"v", "i", "n", " ", "e", "x", "p", "l", "o", "s", "i", "o", "n">>,
      <<"v", "i", "n", " ", "l", "i", "s", "t">>, <<"v", "i", "n", " ", "p", "i", "p", "e">>,
      <<"v", "i", "n", "(", "s", ")">>, <<"v", "i", "n", "_", "l", "i", "s", "t">>,
      <<"v", "i", "n", "_", "s", "p", "l", "i", "t">>, <<"v", "i", "n", "s">>,
      <<"v", "i", "n", "s", "_", "f", "o", "u", "n", "d">> }

(***************************************************************************)
(* schema_detection.py: header normalisation and header scoring            *)
(***************************************************************************)
\* str.lower on one character
LowerChar(c) ==
    IF c \in Range(UpperLetters) THEN LowerLetters[IndexOf(UpperLetters, c)] ELSE c

IsLowerAlnum(c) == c \in Range(LowerLetters) \cup Range(Digits)

\* normalize_label: lower case, every run outside [a-z0-9] becomes one space,
\* stripped
normalize_label(label) ==
    Strip(CollapseSpace([i \in DOMAIN label |->
            IF IsLowerAlnum(LowerChar(label[i])) THEN LowerChar(label[i]) ELSE " "]))

\* set(s.split()): the maximal runs of s without white space
TokenSet(s) ==
    {SubSeq(s, i, j) : <<i, j>> \in
        {p \in (DOMAIN s) \X (DOMAIN s) :
            /\ p[1] <= p[2]
            /\ \A k \in p[1]..p[2] : ~IsSpace(s[k])
            /\ (p[1] = 1 \/ IsSpace(s[p[1] - 1]))
            /\ (p[2] = Len(s) \/ IsSpace(s[p[2] + 1]))}}

\* fuzz.token_set_ratio: 100 when the two token sets share a token and one
\* holds the other; every other ratio is below FUZZY_CANDIDATE - 5 for the
\* headers of this model and the synonyms of its fields, and is modelled by 0
token_set_ratio(s1, s2) ==
    LET a == TokenSet(s1)
        b == TokenSet(s2)
    IN IF a \cap b # {} /\ (a \subseteq b \/ b \subseteq a) THEN 100 ELSE 0

FUZZY_STRONG == 90
FUZZY_CANDIDATE == 80

\* the fields whose detection is modelled
SchemaFields == <<"Last_Name", "Address1", "City", "State", "Zip", "VIN", "DeliveryDate">>

\* canonical.lower() and canonical.replace("_", " ")
CanonLower ==
    "Last_Name" :> <<"l", "a", "s", "t", "_", "n", "a", "m", "e">>
    @@ "Address1" :> <<"a", "d", "d", "r", "e", "s", "s", "1">>
    @@ "City" :> <<"c", "i", "t", "y">>
    @@ "State" :> <<"s", "t", "a", "t", "e">>
    @@ "Zip" :> <<"z", "i", "p">>
    @@ "VIN" :> <<"v", "i", "n">>
    @@ "DeliveryDate" :> <<"d", "e", "l", "i", "v", "e", "r", "y", "d", "a", "t", "e">>

CanonSpaced ==
    "Last_Name" :> <<"L", "a", "s", "t", " ", "N", "a", "m", "e">>
    @@ "Address1" :> <<"A", "d", "d", "r", "e", "s", "s", "1">>
    @@ "City" :> <<"C", "i", "t", "y">>
    @@ "State" :> <<"S", "t", "a", "t", "e">>
    @@ "Zip" :> <<"Z", "i", "p">>
    @@ "VIN" :> <<"V", "I", "N">>
    @@ "DeliveryDate" :> <<"D", "e", "l", "i", "v", "e", "r", "y", "D", "a", "t", "e">>

\* any(tok in header_norm for tok in toks)
AnyIn(toks, header_norm) == \E tok \in toks : Contains(header_norm, tok)

Max2(a, b) == IF a >= b THEN a ELSE b
Min2(a, b) == IF a <= b THEN a ELSE b

\* header_score for the fields of the model (none of them is Store)
header_score(canonical, header_norm) ==
    IF header_norm \in SYNONYMS[canonical] \/ header_norm = CanonLower[canonical]
    THEN FUZZY_STRONG
    ELSE LET pool == SYNONYMS[canonical] \cup {CanonSpaced[canonical]}
             base == IF \E s \in pool : token_set_ratio(header_norm, s) = 100 THEN 100 ELSE 0
             penalised == IF AnyIn(NEGATIVE_KEYWORDS[canonical], header_norm)
                          THEN Max2(0, base - 20) ELSE base
         IN IF AnyIn(POSITIVE_KEYWORDS[canonical], header_norm)
            THEN Min2(100, penalised + 5) ELSE penalised

(***************************************************************************)
(* schema_detection.py: what one value looks like                          *)
(***************************************************************************)
IsAlpha(c) == c \in Range(UpperLetters) \cup Range(LowerLetters)

\* is_city of _looks_like_city
is_city(v) ==
    LET s == Strip(v)
    IN /\ Len(s) >= 2
       /\ \A i \in DOMAIN s : ~IsDigit(s[i])
       /\ IsAlpha(s[1])
       /\ \A i \in 2..Len(s) : IsAlpha(s[i]) \/ IsSpace(s[i]) \/ s[i] \in {"-", ".", "'"}

\* is_state of _looks_like_state, and _is_state_value
is_state(v) == Upper(Strip(v)) \in US_STATE_ABBR

\* \d{5}(?:-\d{4})? matched by the whole of s
ZipFull(s) ==
    /\ Len(s) \in {5, 10}
    /\ \A i \in 1..5 : IsDigit(s[i])
    /\ Len(s) = 10 => (s[6] = "-" /\ \A i \in 7..10 : IsDigit(s[i]))

\* is_zip of _looks_like_zip, and _is_zip_value
is_zip(v) == ZipFull(Strip(v))

\* is_oem of _oem_rate
is_oem(v) == Upper(Strip(v)) \in EXCLUDE_OEMS

\* ^(\d+\s+|P\.?O\.?\s*BOX\b) of is_street
StreetStart(s) ==
    \/ \E k \in 1..(Len(s) - 1) : (\A i \in 1..k : IsDigit(s[i])) /\ IsSpace(s[k + 1])
    \/ /\ StartsAt(s, 1, <<"P">>)
       /\ MatchOBox(s, SkipDot(s, 2)) # 0

\* is_street of _looks_like_street
is_street(v) ==
    LET s == Upper(Strip(v))
    IN /\ s # <<>>
       /\ (StreetStart(s) \/ \E suf \in STREET_SUFFIXES : InTokens(s, suf))

\* (?i)\bP\.?\s*O\.?\s*BOX\b|\bPO\s*BOX\b found in v (line 398)
is_po_box(v) == \E i \in DOMAIN v : MatchPoBox(Upper(v), i) # 0

\* VIN_RE found in v: a run of 17 VIN characters between word boundaries
contains_vin(v) ==
    \E i \in 1..(Len(v) - VinLength + 1) :
        /\ Boundary(v, i)
        /\ Boundary(v, i + VinLength)
        /\ UpperChar(v[i]) \notin {"I", "O", "Q"}
        /\ \A k \in i..(i + VinLength - 1) : UpperChar(v[k]) \in VinClass

\* \s*-?\d+(?:\.\d+)?\s* matched by the whole of v (line 271)
NumericLike(v) ==
    LET s == Strip(v)
        u == IF s # <<>> /\ s[1] = "-" THEN Tail(s) ELSE s
        dots == {i \in DOMAIN u : u[i] = "."}
    IN /\ u # <<>>
       /\ \A i \in DOMAIN u : IsDigit(u[i]) \/ u[i] = "."
       /\ Cardinality(dots) <= 1
       /\ \A i \in dots : i > 1 /\ i < Len(u)

\* pd.to_datetime(.., errors="coerce") on the texts YYYY-MM-DD of the years
\* from 2021 on, as the month number on the scale of Today; 0 is NaT, which
\* is what the other texts of the model give
to_datetime(v) ==
    IF /\ Len(v) = 10
       /\ v[5] = "-" /\ v[8] = "-"
       /\ \A i \in {1, 2, 3, 4, 6, 7, 9, 10} : IsDigit(v[i])
       /\ DigitsValue(SubSeq(v, 1, 4)) >= 2021
       /\ DigitsValue(SubSeq(v, 6, 7)) \in 1..12
    THEN (DigitsValue(SubSeq(v, 1, 4)) - 2021) * 12 + DigitsValue(SubSeq(v, 6, 7))
    ELSE 0

(***************************************************************************)
(* preprocess.py: the composite City/State/Zip splitter.  A table of the   *)
(* detection carries its column names in file order (order); __ROWNUM, a   *)
(* column of integers no step of the detection scores, is the idx of the   *)
(* rows.                                                                   *)
(***************************************************************************)
\* the maximal runs of s that hold no character of seps
RECURSIVE Segments(_, _)
Segments(s, seps) ==
    IF s = <<>> THEN <<>>
    ELSE IF s[1] \in seps THEN Segments(Tail(s), seps)
    ELSE LET stops == {i \in DOMAIN s : s[i] \in seps}
             e == IF stops = {} THEN Len(s) + 1
                  ELSE CHOOSE i \in stops : \A j \in stops : i <= j
         IN <<SubSeq(s, 1, e - 1)>> \o Segments(SubSeq(s, e, Len(s)), seps)

\* sep.join(parts)
RECURSIVE Join(_, _)
Join(parts, sep) ==
    IF parts = <<>> THEN <<>>
    ELSE IF Len(parts) = 1 THEN parts[1]
    ELSE parts[1] \o sep \o Join(Tail(parts), sep)

\* \b(\d{5})(?:-\d{4})?$ searched in t: where the match starts, 0 if none
ZipAtEnd(t) ==
    LET n == Len(t)
        Five(i) == i >= 1 /\ i + 4 <= n /\ (\A k \in i..(i + 4) : IsDigit(t[k])) /\ Boundary(t, i)
    IN IF n >= 10 /\ Five(n - 9) /\ t[n - 4] = "-" /\ \A k \in (n - 3)..n : IsDigit(t[k])
       THEN n - 9
       ELSE IF Five(n - 4) THEN n - 4 ELSE 0

\* [A-Za-z][A-Za-z \-\.'/]* matched by the whole of s
CityText(s) ==
    /\ s # <<>>
    /\ IsAlpha(s[1])
    /\ \A i \in 2..Len(s) : IsAlpha(s[i]) \/ s[i] \in {" ", "-", ".", "'", "/"}

TwoLetters(s) == Len(s) = 2 /\ IsAlpha(s[1]) /\ IsAlpha(s[2])

CszLabels ==
    { <<"Z", "I", "P">>, <<"Z", "I", "P", " ", "C", "O", "D", "E">>,
      <<"P", "O", "S", "T", "A", "L">>, <<"P", "O", "S", "T", "A", "L", " ", "C", "O", "D", "E">> }

CszCityLabels == CszLabels \cup { <<"C", "I", "T", "Y">>, <<"S", "T", "A", "T", "E">> }

\* where the city of ^(?P<city>..)[,\s]+(?P<st>[A-Za-z]{2})$ may end in u
CityEnds(u) ==
    {k \in 1..(Len(u) - 3) :
        /\ CityText(SubSeq(u, 1, k))
        /\ \A i \in (k + 1)..(Len(u) - 2) : u[i] = "," \/ IsSpace(u[i])}

\* _split_csz_value: the triple <<city, state, zip>>
_split_csz_value(text) ==
    LET nonempty(segs) == SelectSeq([i \in DOMAIN segs |-> Strip(segs[i])],
                                    LAMBDA p : p # <<>>)
        last(ends) == CHOOSE k \in ends : \A j \in ends : j <= k
        branches(t_wo_zip, zip, u, up, parts, toks, ends) ==
            IF zip # <<>> /\ up \in CszLabels THEN <<<<>>, <<>>, zip>>
            ELSE IF Len(u) >= 4 /\ TwoLetters(SubSeq(u, Len(u) - 1, Len(u))) /\ ends # {}
                 THEN <<Strip(SubSeq(u, 1, last(ends))),
                        Upper(SubSeq(u, Len(u) - 1, Len(u))), zip>>
            ELSE IF TwoLetters(u) /\ zip # <<>> THEN <<<<>>, up, zip>>
            ELSE IF zip # <<>> /\ CityText(u)
                 THEN IF up \in CszCityLabels THEN <<<<>>, <<>>, zip>> ELSE <<u, <<>>, zip>>
            ELSE IF (\E i \in DOMAIN t_wo_zip : t_wo_zip[i] = ",")
                    /\ Len(parts) >= 2 /\ TwoLetters(parts[Len(parts)])
                 THEN <<Join(SubSeq(parts, 1, Len(parts) - 1), <<",", " ">>),
                        Upper(parts[Len(parts)]), zip>>
            ELSE IF Len(toks) >= 2 /\ TwoLetters(toks[Len(toks)])
                 THEN <<Join(SubSeq(toks, 1, Len(toks) - 1), <<" ">>),
                        Upper(toks[Len(toks)]), zip>>
            ELSE <<<<>>, <<>>, zip>>
        stripped(t_wo_zip, zip, u) ==
            branches(t_wo_zip, zip, u, Upper(u), nonempty(Segments(t_wo_zip, {","})),
                     Segments(u, {" ", "\t"}), CityEnds(u))
        cut(t, z) ==
            stripped(IF z = 0 THEN t ELSE SubSeq(t, 1, z - 1),
                     IF z = 0 THEN <<>> ELSE SubSeq(t, z, z + 4),
                     Strip(IF z = 0 THEN t ELSE SubSeq(t, 1, z - 1)))
        split(t) == IF t = <<>> THEN <<<<>>, <<>>, <<>>>> ELSE cut(t, ZipAtEnd(t))
    IN split(Strip(text))

\* the headers of the tables of the detection, as texts
HeaderText ==
    "Last Name" :> <<"L", "a", "s", "t", " ", "N", "a", "m", "e">>
    @@ "Address" :> <<"A", "d", "d", "r", "e", "s", "s">>
    @@ "Mailing Address" :> <<"M", "a", "i", "l", "i", "n", "g", " ", "A", "d", "d", "r", "e", "s", "s">>
    @@ "City" :> <<"C", "i", "t", "y">>
    @@ "Town" :> <<"T", "o", "w", "n">>
    @@ "State" :> <<"S", "t", "a", "t", "e">>
    @@ "Zip" :> <<"Z", "i", "p">>
    @@ "City/State/Zip" :> <<"C", "i", "t", "y", "/", "S", "t", "a", "t", "e", "/", "Z", "i", "p">>
    @@ "VIN" :> <<"V", "I", "N">>
    @@ "VIN Explosion" :> <<"V", "I", "N", " ", "E", "x", "p", "l", "o", "s", "i", "o", "n">>
    @@ "Date" :> <<"D", "a", "t", "e">>
    @@ "__CSZ_City" :> <<"_", "_", "C", "S", "Z", "_", "C", "i", "t", "y">>
    @@ "__CSZ_State" :> <<"_", "_", "C", "S", "Z", "_", "S", "t", "a", "t", "e">>
    @@ "__CSZ_Zip" :> <<"_", "_", "C", "S", "Z", "_", "Z", "i", "p">>

Austin == <<"A", "u", "s", "t", "i", "n">>
Dallas == <<"D", "a", "l", "l", "a", "s">>
Hutto == <<"H", "u", "t", "t", "o">>
TX == <<"T", "X">>
Zip73301 == <<"7", "3", "3", "0", "1">>
Zip75201 == <<"7", "5", "2", "0", "1">>
ElmSt == <<"1", " ", "E", "l", "m", " ", "S", "t", ".">>
OakAve == <<"9", " ", "O", "a", "k", " ", "A", "v", "e">>
Lot7 == <<"L", "o", "t", " ", "7">>
Box1 == <<"B", "o", "x", " ", "1">>
Box2 == <<"B", "o", "x", " ", "2">>
AustinTX == <<"A", "u", "s", "t", "i", "n", ",", " ", "T", "X", " ", "7", "3", "3", "0", "1">>
DallasTX == <<"D", "a", "l", "l", "a", "s", ",", " ", "T", "X", " ", "7", "5", "2", "0", "1">>
May2023 == <<"2", "0", "2", "3", "-", "0", "5", "-", "0", "1">>
June2023 == <<"2", "0", "2", "3", "-", "0", "6", "-", "0", "1">>
VinList == VinB \o <<"|">> \o VinA

\* _pre_trim_normalize: white space collapsed and stripped in every cell
_pre_trim_normalize(df) ==
    [df EXCEPT !.rows = [i \in DOMAIN df.rows |->
        [c \in DOMAIN df.rows[i] |->
            IF c = "idx" THEN df.rows[i][c] ELSE Strip(CollapseSpace(df.rows[i][c]))]]]

\* the column col of df, and how many of its values satisfy P
Column(df, col) == [i \in DOMAIN df.rows |-> df.rows[i][col]]
Hits(s, P(_)) == Cardinality({i \in DOMAIN s : P(s[i])})

\* s.nunique(dropna=True)
nunique(s) == Cardinality(Range(s))

\* the header of a column, normalised
HeaderNorm(col) == normalize_label(HeaderText[col])

CszTokens ==
    { <<"c", "i", "t", "y", " ", "s", "t", "a", "t", "e", " ", "z", "i", "p">>,
      <<"c", "i", "t", "y", " ", "s", "t", " ", "z", "i", "p">>,
      <<"c", "s", "z">>,
      <<"c", "i", "t", "y", " ", "s", "t", "a", "t", "e">>,
      <<"c", "i", "t", "y", " ", "s", "t">>,
      <<"c", "i", "t", "y", "/", " ", "s", "t", "a", "t", "e">>,
      <<"c", "i", "t", "y", "/", "s", "t", "a", "t", "e">> }

\* [A-Za-z].*,?\s*[A-Za-z]{2}\s+\d{5}(?:-\d{4})? found in v
CszLike(v) ==
    \E j \in 2..(Len(v) - 7) :
        /\ IsAlpha(v[j]) /\ IsAlpha(v[j + 1])
        /\ \E i \in 1..(j - 1) : IsAlpha(v[i])
        /\ SkipSpace(v, j + 2) > j + 2
        /\ SkipSpace(v, j + 2) + 4 <= Len(v)
        /\ \A k \in SkipSpace(v, j + 2)..(SkipSpace(v, j + 2) + 4) : IsDigit(v[k])

\* cand_cols of _pre_split_city_state_zip, in column order
CszCandCols(df) ==
    SelectSeq(df.order, LAMBDA col :
        \/ AnyIn(CszTokens, HeaderNorm(col))
        \/ 10 * Hits(Column(df, col), CszLike) >= 3 * Len(df.rows))

\* city_acc, state_acc and zip_acc (part 1, 2, 3) of row i: the first
\* non-empty part over the candidate columns, "" if there is none
CszAcc(df, cand, i, part) ==
    LET value(k) == _split_csz_value(df.rows[i][cand[k]])[part]
        first(found) == IF found = {} THEN <<>>
                        ELSE value(CHOOSE k \in found : \A m \in found : k <= m)
    IN first({k \in DOMAIN cand : value(k) # <<>>})

CszNames == <<"__CSZ_City", "__CSZ_State", "__CSZ_Zip">>

\* _pre_split_city_state_zip: a synthetic column is added for each part that
\* some row yields
_pre_split_city_state_zip(df) ==
    LET acc(cand, i, p) == CszAcc(df, cand, i, p)
        made(cand) == SelectSeq(<<1, 2, 3>>, LAMBDA p :
                          \E i \in DOMAIN df.rows : acc(cand, i, p) # <<>>)
        named(parts) == [k \in DOMAIN parts |-> CszNames[parts[k]]]
        with(cand, names) ==
            [cols |-> df.cols \cup Range(names),
             order |-> df.order \o names,
             rows |-> [i \in DOMAIN df.rows |->
                        [c \in DOMAIN df.rows[i] \cup Range(names) |->
                            IF c \in DOMAIN df.rows[i] THEN df.rows[i][c]
                            ELSE acc(cand, i, IndexOf(CszNames, c))]]]
        split(cand) == IF cand = <<>> THEN df ELSE with(cand, named(made(cand)))
    IN split(CszCandCols(df))

(***************************************************************************)
(* schema_detection.detect_schema                                          *)
(***************************************************************************)
\* ZIP5_REGEX found in v: \b\d{5}(?:-\d{4})?\b
contains_zip(v) ==
    \E i \in 1..(Len(v) - 4) :
        /\ Boundary(v, i)
        /\ \A k \in i..(i + 4) : IsDigit(v[k])
        /\ \/ Boundary(v, i + 5)
           \/ /\ i + 9 <= Len(v) /\ v[i + 5] = "-"
              /\ \A k \in (i + 6)..(i + 9) : IsDigit(v[k])
              /\ Boundary(v, i + 10)

Parses(v) == to_datetime(v) # 0

\* value_pattern_score for the fields of the model, on a column s with rows
value_pattern_score(canonical, s) ==
    CASE canonical = "VIN" ->
            IF 100 * Hits(s, contains_vin) >= Len(s) /\ Hits(s, contains_vin) > 0 THEN 4
            ELSE IF Hits(s, contains_vin) > 0 THEN 2 ELSE 0
      [] canonical = "Zip" -> IF Hits(s, contains_zip) > 0 THEN 2 ELSE 0
      [] canonical = "DeliveryDate" -> IF Hits(s, Parses) > 0 THEN 2 ELSE 0
      [] OTHER -> 0

\* lines 235-242: the header candidates of a field, in column order
HeaderCands(df, canonical) ==
    LET score(col) == header_score(canonical, HeaderNorm(col))
        scored(cols) ==
            [k \in DOMAIN cols |->
               [col |-> cols[k],
                score |-> Max2(score(cols[k]), FUZZY_CANDIDATE)
                          + value_pattern_score(canonical, Column(df, cols[k]))]]
    IN scored(SelectSeq(df.order, LAMBDA col : score(col) >= FUZZY_CANDIDATE))

\* lines 245-258: the first column with the highest non-zero rate of P, ""
\* if every rate is zero
BestCol(df, P(_)) ==
    LET top == {k \in DOMAIN df.order :
                   /\ Hits(Column(df, df.order[k]), P) > 0
                   /\ \A m \in DOMAIN df.order :
                        Hits(Column(df, df.order[m]), P) <= Hits(Column(df, df.order[k]), P)}
    IN IF top = {} THEN "" ELSE df.order[CHOOSE k \in top : \A m \in top : k <= m]

\* lines 260-265: a mask exists when the best rate is at least 0.3
HasMask(df, P(_)) ==
    /\ BestCol(df, P) # ""
    /\ 10 * Hits(Column(df, BestCol(df, P)), P) >= 3 * Len(df.rows)

\* the rows where nonempty & state_mask & zip_mask holds for the column col
CoRows(df, col) ==
    IF HasMask(df, is_state) /\ HasMask(df, is_zip)
    THEN {i \in DOMAIN df.rows :
            /\ Strip(df.rows[i][col]) # <<>>
            /\ is_state(df.rows[i][BestCol(df, is_state)])
            /\ is_zip(df.rows[i][BestCol(df, is_zip)])}
    ELSE {}

\* line 271: the columns the value-driven pass looks at
ValueCols(df) ==
    SelectSeq(df.order, LAMBDA col :
        ~(10 * Hits(Column(df, col), NumericLike) > 8 * Len(df.rows)))

\* lines 273-305: the value-driven candidates of a field, in column order
ValueCands(df, canonical) ==
    LET n == Len(df.rows)
        rate(col, like(_)) == Hits(Column(df, col), like)
        neg(col) == IF AnyIn(NEGATIVE_KEYWORDS[canonical], HeaderNorm(col)) THEN 20 ELSE 0
        low(col) == IF 1000 * nunique(Column(df, col)) < n THEN 20 ELSE 0
        street(col, hits) == Max2(0, (80 * n + 20 * hits) \div n - neg(col))
        city(col, hits) ==
            Max2(0, (80 * n + 20 * hits + 20 * Cardinality(CoRows(df, col))
                     - 60 * rate(col, is_oem)) \div n
                    - neg(col) - low(col))
        scored(cols) ==
            [k \in DOMAIN cols |->
               [col |-> cols[k],
                score |->
                  CASE canonical = "Address1" -> street(cols[k], rate(cols[k], is_street))
                    [] canonical = "City" -> city(cols[k], rate(cols[k], is_city))
                    [] canonical = "State" -> (85 * n + 15 * rate(cols[k], is_state)) \div n
                    [] canonical = "Zip" -> (85 * n + 15 * rate(cols[k], is_zip)) \div n]]
    IN scored(SelectSeq(ValueCols(df), LAMBDA col :
                CASE canonical = "Address1" -> 10 * rate(col, is_street) >= 2 * n
                  [] canonical = "City" -> 10 * rate(col, is_city) >= 3 * n
                  [] canonical = "State" -> 10 * rate(col, is_state) >= 3 * n
                  [] canonical = "Zip" -> 10 * rate(col, is_zip) >= 3 * n
                  [] OTHER -> FALSE))

\* lines 308-311: the precedence candidates of DeliveryDate
DateCands(df, canonical) ==
    LET scored(cols) ==
            [k \in DOMAIN cols |->
               [col |-> cols[k],
                score |-> FUZZY_CANDIDATE
                          + value_pattern_score("DeliveryDate", Column(df, cols[k]))]]
    IN scored(SelectSeq(df.order, LAMBDA col :
                canonical = "DeliveryDate"
                /\ AnyIn(DELIVERYDATE_PRECEDENCE, HeaderNorm(col))))

\* candidates[canonical]
candidates(df, canonical) ==
    HeaderCands(df, canonical) \o ValueCands(df, canonical) \o DateCands(df, canonical)

\* the three lists of every field, as the three loops of lines 235-311 fill them
CandidateLists(df) ==
    [c \in Range(SchemaFields) |->
        [header |-> HeaderCands(df, c), value |-> ValueCands(df, c),
         date |-> DateCands(df, c)]]

\* the position of pairs[i] in sorted(pairs, key=(-score, len(header_norm))):
\* a stable sort, so equal keys keep the order of the list
SortsFirst(pairs, i, j) ==
    \/ pairs[i].score > pairs[j].score
    \/ /\ pairs[i].score = pairs[j].score
       /\ \/ Len(HeaderNorm(pairs[i].col)) < Len(HeaderNorm(pairs[j].col))
          \/ Len(HeaderNorm(pairs[i].col)) = Len(HeaderNorm(pairs[j].col)) /\ i < j

FirstOf(pairs, among) ==
    CHOOSE i \in among : \A j \in among \ {i} : SortsFirst(pairs, i, j)

\* the fields that may share a column set with another (coexist_ok)
CoexistOk == {"FullName", "First_Name", "Last_Name", "Home_Phone", "Mobile_Phone",
              "Work_Phone", "Phone2"}

\* s.notna().sum(): every cell of a table read as text is a text
notna_sum(s) == Len(s)

Abs(x) == IF x < 0 THEN 0 - x ELSE x

\* whether pick_best puts its two best pairs to the tie-break
TieBreak(canon, pairs) ==
    LET close(b, s) == /\ Abs(pairs[b].score - pairs[s].score) <= 2
                       /\ HeaderNorm(pairs[b].col) # HeaderNorm(pairs[s].col)
        second(b) == close(b, FirstOf(pairs, DOMAIN pairs \ {b}))
    IN /\ canon \notin CoexistOk
       /\ Len(pairs) > 1
       /\ second(FirstOf(pairs, DOMAIN pairs))

\* pick_best: the chosen column ("" for None), or the ambiguity raised
pick_best(df, canon, pairs) ==
    LET counts(b, s, nonnull1, nonnull2, unique1, unique2) ==
            IF nonnull1 # nonnull2
            THEN [col |-> IF nonnull1 > nonnull2 THEN pairs[b].col ELSE pairs[s].col,
                  raised |-> FALSE]
            ELSE IF unique1 # unique2
            THEN [col |-> IF unique1 > unique2 THEN pairs[b].col ELSE pairs[s].col,
                  raised |-> FALSE]
            ELSE [col |-> "", raised |-> TRUE, best |-> pairs[b], second |-> pairs[s]]
        values(b, s, s1, s2) ==
            counts(b, s, notna_sum(s1), notna_sum(s2), nunique(s1), nunique(s2))
        tied(b, s) == values(b, s, Column(df, pairs[b].col), Column(df, pairs[s].col))
        best(b) == IF ~TieBreak(canon, pairs) THEN [col |-> pairs[b].col, raised |-> FALSE]
                   ELSE tied(b, FirstOf(pairs, DOMAIN pairs \ {b}))
    IN IF pairs = <<>> THEN [col |-> "", raised |-> FALSE]
       ELSE best(FirstOf(pairs, DOMAIN pairs))

\* lines 343-346: the primary pass over the fields that have candidates
Picked(df, pairs) ==
    {c \in DOMAIN pairs : pick_best(df, c, pairs[c]).col # ""}

PrimaryMapping(df, pairs) ==
    [c \in Picked(df, pairs) |-> pick_best(df, c, pairs[c]).col]

AmbiguousFields(df, pairs) ==
    {c \in DOMAIN pairs : pick_best(df, c, pairs[c]).raised}

\* mapping[canon] = col
Remap(m, canon, col) ==
    [c \in DOMAIN m \cup {canon} |-> IF c = canon THEN col ELSE m[c]]

\* _maybe_use_csz, the threshold in tenths
_maybe_use_csz(df, m, canon, like(_), tenths) ==
    LET csz_col == CszNames[IndexOf(<<"City", "State", "Zip">>, canon)]
        n == Len(df.rows)
        chosen == IF canon \in DOMAIN m THEN Hits(Column(df, m[canon]), like) ELSE 0
        csz == Hits(Column(df, csz_col), like)
        composite == canon \in DOMAIN m
                     /\ Contains(HeaderNorm(m[canon]),
                                 <<"c", "i", "t", "y", " ", "s", "t", "a", "t", "e", " ",
                                   "z", "i", "p">>)
    IN IF /\ csz_col \in df.cols
          /\ composite \/ 10 * chosen < tenths * n
          /\ 10 * csz >= tenths * n
       THEN Remap(m, canon, csz_col)
       ELSE m

\* lines 369-371
UseCsz(df, m) ==
    _maybe_use_csz(df,
        _maybe_use_csz(df, _maybe_use_csz(df, m, "State", is_state, 7), "Zip", is_zip, 7),
        "City", is_city, 5)

NameTokens == { <<"f", "i", "r", "s", "t">>, <<"l", "a", "s", "t">>,
                <<"f", "u", "l", "l", "n", "a", "m", "e">>,
                <<"c", "u", "s", "t", "o", "m", "e", "r", " ", "n", "a", "m", "e">> }
NameHeaders == { <<"f", "i", "r", "s", "t", " ", "n", "a", "m", "e">>,
                 <<"l", "a", "s", "t", " ", "n", "a", "m", "e">> }
VehicleTokens == { <<"m", "o", "d", "e", "l">>, <<"s", "e", "r", "i", "e", "s">>,
                   <<"t", "r", "i", "m">> }

\* lines 413-423: the chosen City column looks like a name or a model column
CityGuardTrips(df, m) ==
    LET chosen_norm == HeaderNorm(m["City"])
        same == {i \in DOMAIN df.rows :
                    Strip(df.rows[i][m["Last_Name"]]) = Strip(df.rows[i][m["City"]])}
    IN \/ AnyIn(NameTokens, chosen_norm) \/ chosen_norm \in NameHeaders
       \/ AnyIn(VehicleTokens, chosen_norm)
       \/ "Last_Name" \in DOMAIN m /\ 10 * Cardinality(same) >= 2 * Len(df.rows)

\* lines 424-434: City moves to __CSZ_City when that column is city-like; the
\* SchemaError of the other branch is raised inside the try whose handler is
\* "except Exception: pass", so the mapping stays as it is
CityGuard(df, m) ==
    IF "City" \in DOMAIN m /\ CityGuardTrips(df, m)
       /\ "__CSZ_City" \in df.cols
       /\ 10 * Hits(Column(df, "__CSZ_City"), is_city) >= 3 * Len(df.rows)
    THEN Remap(m, "City", "__CSZ_City")
    ELSE m

\* a detect_schema without gates
GateFailsNever(df, m, canon) == FALSE

\* the gates of lines 390-496 on the mapping m, each TRUE when it raises
GateFails(df, m, canon) ==
    LET n == Len(df.rows)
        s == Column(df, m[canon])
    IN canon \in DOMAIN m /\
       CASE canon = "Address1" ->
              IF 10 * Hits(s, is_po_box) >= 2 * n
              THEN 10 * Hits(s, is_street) < 2 * n
              ELSE 10 * Hits(s, is_street) < 3 * n
         [] canon = "City" ->
              \/ 10 * Hits(s, is_city) < 5 * n
              \/ 10 * Cardinality(CoRows(df, m[canon])) < 3 * n
         [] canon = "State" -> 10 * Hits(s, is_state) < 7 * n
         [] canon = "Zip" -> 10 * Hits(s, is_zip) < 7 * n
         [] canon = "VIN" -> 100 * Hits(s, contains_vin) < n
         [] canon = "DeliveryDate" -> 10 * Hits(s, Parses) < 2 * n
         [] OTHER -> FALSE

GatedFields == <<"Address1", "City", "State", "Zip", "VIN", "DeliveryDate">>

\* the first gate that raises, "" if none does
FirstFailedGate(df, m) ==
    LET first(failed) == IF failed = {} THEN ""
                         ELSE GatedFields[CHOOSE k \in failed : \A j \in failed : k <= j]
    IN first({k \in DOMAIN GatedFields : GateFails(df, m, GatedFields[k])})

(***************************************************************************)
(* filters.py: VIN explosion on the raw table                              *)
(***************************************************************************)
\* find_vin_explosion_column: "" for None
find_vin_explosion_column(df) ==
    LET hits == {k \in DOMAIN df.order : HeaderNorm(df.order[k]) \in VIN_EXPLOSION_SYNONYMS}
        first == CHOOSE k \in hits : \A m \in hits \ {k} :
                    \/ Len(HeaderNorm(df.order[k])) < Len(HeaderNorm(df.order[m]))
                    \/ Len(HeaderNorm(df.order[k])) = Len(HeaderNorm(df.order[m])) /\ k < m
    IN IF hits = {} THEN "" ELSE df.order[first]

\* run_pipeline lines 46-50: the first column named "vin", "" for None
VinColumn(df) ==
    LET hits == {k \in DOMAIN df.order :
                    [i \in DOMAIN Strip(HeaderText[df.order[k]]) |->
                        LowerChar(Strip(HeaderText[df.order[k]])[i])] = <<"v", "i", "n">>}
    IN IF hits = {} THEN "" ELSE df.order[CHOOSE k \in hits : \A m \in hits : k <= m]

VIN_EXPLOSION_DELIMITERS == {",", ";", "|", "/", " ", "\t"}

\* sorted(S) for a set of texts
RECURSIVE SortedTexts(_)
SortedTexts(S) ==
    IF S = {} THEN <<>>
    ELSE LET least == CHOOSE a \in S : \A b \in S \ {a} : TextLess(a, b)
         IN <<least>> \o SortedTexts(S \ {least})

\* tokens of one row: the valid VINs of the list cell and of the VIN cell
ExplodeTokens(r, vin_col, vin_list_col) ==
    LET parts == Segments(r[vin_list_col], VIN_EXPLOSION_DELIMITERS)
        listed == {Upper(Strip(parts[k])) : k \in {k \in DOMAIN parts : VIN_RE_fullmatch(Upper(Strip(parts[k])))}}
        single == IF vin_col # "" /\ VIN_RE_fullmatch(Upper(Strip(r[vin_col])))
                  THEN {Upper(Strip(r[vin_col]))} ELSE {}
    IN SortedTexts(listed \cup single)

\* the records of rows[from..]: one copy of the row per token
RECURSIVE ExplodeRecords(_, _, _, _)
ExplodeRecords(rows, from, vin_col, vin_list_col) ==
    IF from > Len(rows) THEN <<>>
    ELSE LET toks == ExplodeTokens(rows[from], vin_col, vin_list_col)
         IN [k \in DOMAIN toks |->
                IF vin_col = "" THEN rows[from]
                ELSE [rows[from] EXCEPT ![vin_col] = toks[k]]]
            \o ExplodeRecords(rows, from + 1, vin_col, vin_list_col)

\* explode_vins_on_raw; from_records labels the new rows 0, 1, ..
explode_vins_on_raw(df, vin_col, vin_list_col) ==
    LET labelled(records) ==
            [df EXCEPT !.rows = [k \in DOMAIN records |-> [records[k] EXCEPT !.idx = k - 1]]]
    IN IF vin_list_col = "" THEN df
       ELSE labelled(ExplodeRecords(df.rows, 1, vin_col, vin_list_col))

(***************************************************************************)
(* Runs of run_pipeline from the raw table on: VIN explosion, the          *)
(* pre-split, detect_schema in its three passes, the canonical frame and   *)
(* the stages.  df_can is the raw table, then the table detect_schema is   *)
(* given, then can_df; locals.mapping is the mapping of detect_schema and   *)
(* locals.file the table as it was read.                                   *)
(***************************************************************************)
MaxSchemaRows == 2

AttnBox == <<"A", "t", "t", "n", " ", "P", "O", " ", "B", "o", "x", " ", "2">>

\* the column sets of the raw tables, in file order, the rows every table of
\* the family starts with and the rows it draws after them
SchemaFamilies ==
    { [order |-> <<"Last Name", "Address", "City", "State", "Zip", "VIN", "Date">>,
       base |-> <<>>,
       vals |-> { <<Smith, ElmSt, Austin, TX, Zip73301, VinA, May2023>>,
                  <<Lee, OakAve, Dallas, TX, Zip75201, VinB, June2023>>,
                  <<Austin, OakAve, Austin, TX, Zip73301, VinB, June2023>>,
                  <<Smith, Lot7, Austin, NoText, NoText, NoText, NoText>> }],
      [order |-> <<"Last Name", "City/State/Zip">>,
       base |-> <<>>,
       vals |-> { <<Smith, AustinTX>>, <<Lee, DallasTX>>, <<Lee, AustinTX>>,
                  <<Smith, NoText>> }],
      [order |-> <<"Address", "Mailing Address">>,
       base |-> <<>>,
       vals |-> { <<ElmSt, Box1>>, <<Lot7, Box2>>, <<OakAve, Box1>> }],
      [order |-> <<"Address">>,
       base |-> << <<Lot7>>, <<Lot7>> >>,
       vals |-> { <<OakAve>>, <<AttnBox>>, <<Lot7>> }],
      [order |-> <<"City", "Town", "State", "Zip">>,
       base |-> <<>>,
       vals |-> { <<Austin, Austin, TX, Zip73301>>, <<Dallas, Austin, TX, Zip75201>>,
                  <<Dallas, Dallas, TX, Zip75201>>, <<Austin, Hutto, TX, Zip73301>> }],
      [order |-> <<"VIN", "VIN Explosion">>,
       base |-> <<>>,
       vals |-> { <<VinA, VinList>>, <<NoText, Lot7>>, <<VinALower, NoText>> }] }

\* raw is a table of the family fam with 0..MaxSchemaRows drawn rows, labelled
\* from 0
IsSchemaTable(raw, fam) ==
    \E n \in 0..MaxSchemaRows : \E f \in [1..n -> fam.vals] :
        LET vals == fam.base \o f
        IN raw = [cols |-> Range(fam.order),
                  order |-> fam.order,
                  rows |-> [i \in DOMAIN vals |->
                              [c \in Range(fam.order) \cup {"idx"} |->
                                  IF c = "idx" THEN i - 1
                                  ELSE vals[i][IndexOf(fam.order, c)]]]]

InitSchema ==
    /\ \E fam \in SchemaFamilies : IsSchemaTable(df_can, fam)
    /\ pc = "explode"
    /\ locals = [presets |-> PRESETS, file |-> df_can, raw |-> df_can, steps |-> <<>>,
                 mapping |-> <<>>]
    /\ result = NoResult

\* a run_pipeline that would catch the error of detect_schema and hand the raw
\* table out as its output
RaiseSchemaWithOutput(kind, about) ==
    /\ pc' = "run_raised"
    /\ result' = [table |-> [cols |-> df_can.cols, rows |-> df_can.rows], removed |-> 0,
                  raised |-> kind] @@ [about |-> about]
    /\ UNCHANGED <<df_can, locals>>

\* detect_schema raises: nothing catches it in build_canonical_frame or in
\* run_pipeline, so the run ends
RaiseSchema(kind, about) ==
    /\ pc' = "run_raised"
    /\ result' = [NoResult EXCEPT !.raised = kind] @@ [about |-> about]
    /\ UNCHANGED <<df_can, locals>>

\* run_pipeline lines 45-53
ExplodeVins ==
    /\ pc = "explode"
    /\ df_can' = explode_vins_on_raw(df_can, VinColumn(df_can),
                                     find_vin_explosion_column(df_can))
    /\ locals' = [locals EXCEPT !.raw = df_can']
    /\ pc' = "pre_split"
    /\ UNCHANGED result

\* preprocess.py lines 239-240
PreSplit ==
    /\ pc = "pre_split"
    /\ df_can' = _pre_split_city_state_zip(_pre_trim_normalize(df_can))
    /\ pc' = "detect"
    /\ UNCHANGED <<locals, result>>

\* the field whose candidates are created first among the fields of S: the
\* primary pass visits the fields in that order
FirstInserted(df, S, lists) ==
    LET at(list, c) == 100 * IndexOf(df.order, list[1].col) + IndexOf(SchemaFields, c)
        rank(c) == IF lists[c].header # <<>> THEN at(lists[c].header, c)
                   ELSE IF lists[c].value # <<>> THEN 10000 + at(lists[c].value, c)
                   ELSE 20000
    IN CHOOSE c \in S : \A d \in S : rank(c) <= rank(d)

\* schema_detection.py lines 226-346: the empty table, the candidates and
\* the primary pass
PrimaryPass ==
    /\ pc = "detect"
    /\ LET joined(lists) ==
               [c \in DOMAIN lists |-> lists[c].header \o lists[c].value \o lists[c].date]
           ambiguity(c, p) ==
               RaiseSchema("SchemaAmbiguityError",
                           [field |-> c, best |-> p.best, second |-> p.second])
           raise(c, pairs) == ambiguity(c, pick_best(df_can, c, pairs[c]))
           pass(lists, pairs, ambiguous) ==
               IF ambiguous # {}
               THEN raise(FirstInserted(df_can, ambiguous, lists), pairs)
               ELSE /\ locals' = [locals EXCEPT !.mapping = PrimaryMapping(df_can, pairs)]
                    /\ pc' = "csz"
                    /\ UNCHANGED <<df_can, result>>
           picks(lists, pairs) == pass(lists, pairs, AmbiguousFields(df_can, pairs))
           primary(lists) == picks(lists, joined(lists))
       IN IF Len(df_can.rows) = 0
          THEN RaiseSchema("SchemaError", [field |-> "", reason |-> "empty"])
          ELSE primary(CandidateLists(df_can))

\* lines 354-371
PreferCsz ==
    /\ pc = "csz"
    /\ locals' = [locals EXCEPT !.mapping = UseCsz(df_can, @)]
    /\ pc' = "gates"
    /\ UNCHANGED <<df_can, result>>

\* lines 390-498: the City guard and the gates, then the return
Gates ==
    /\ pc = "gates"
    /\ LET gate(m, failed) ==
               IF failed # ""
               THEN RaiseSchema("SchemaError", [field |-> failed, reason |-> "low confidence"])
               ELSE /\ locals' = [locals EXCEPT !.mapping = m]
                    /\ pc' = "canonical"
                    /\ UNCHANGED <<df_can, result>>
           guarded(m) == gate(m, FirstFailedGate(df_can, m))
       IN guarded(CityGuard(df_can, locals.mapping))

\* the table build_canonical_frame reads its fields from: the mapped column
\* of each field under the field's name, DeliveryDate parsed
Mapped(df, m) ==
    [cols |-> DOMAIN m,
     rows |-> [i \in DOMAIN df.rows |-> [c \in DOMAIN m \cup {"idx"} |->
                 IF c = "idx" THEN df.rows[i].idx
                 ELSE IF c = "DeliveryDate" THEN to_datetime(df.rows[i][m[c]])
                 ELSE df.rows[i][m[c]]]]]

\* preprocess.py lines 244-302 and run_pipeline lines 67-71
Canonical ==
    /\ pc = "canonical"
    /\ df_can' = [build_canonical_frame(Mapped(df_can, locals.mapping))
                    EXCEPT !.cols = @ \cup {"___IDX_ALL"}]
    /\ locals' = [locals EXCEPT !.steps = <<[name |-> "initial", before |-> Len(df_can.rows),
                                            after |-> Len(df_can.rows)]>>]
    /\ pc' = "exclude_corporate"
    /\ UNCHANGED result

NextSchema ==
    \/ ExplodeVins
    \/ PreSplit
    \/ PrimaryPass
    \/ PreferCsz
    \/ Gates
    \/ Canonical
    \/ ExcludeCorporate
    \/ NamePresent
    \/ AddressPresent
    \/ OutOfState
    \/ ModelYear
    \/ DeliveryAge
    \/ Distance
    \/ Dedupe
    \/ Output

SpecSchema == InitSchema /\ [][NextSchema]_vars

SchemaErrors == {"SchemaError", "SchemaAmbiguityError"}

\* C16: when detect_schema has raised (ambiguity, low confidence or a table
\* without rows, the table emptied by the VIN explosion included), the run is
\* over with that error: no stage and no deduplication has run (no step is
\* recorded), there is no output table, and no further step can be taken.
C16_SchemaFailureEndsRun ==
    result.raised \in SchemaErrors =>
        /\ pc = "run_raised"
        /\ locals.steps = <<>>
        /\ result.table = NoResult.table
        /\ result.removed = 0
        /\ ~ ENABLED NextSchema

\* C16 witness: a table that had rows when it was read, emptied by the VIN
\* explosion, has made detect_schema raise
C16_Witness ==
    /\ pc = "run_raised"
    /\ result.raised = "SchemaError"
    /\ result.about.reason = "empty"
    /\ Len(locals.file.rows) > 0
    /\ Len(df_can.rows) = 0

\* C17: in the primary pass, for every field that must be unique whose two
\* best candidates with distinct headers are within 2 points: when the two
\* columns have different numbers of non-null values, or else of distinct
\* values, the one with more is chosen (unless the pass fails on an
\* ambiguity); when both numbers are equal the pass fails with an ambiguity
\* error, and an error about that field names these two columns and scores.
C17_TieBreakOrAmbiguity ==
    [][pc = "detect" /\ Len(df_can.rows) > 0 =>
        \A c \in Range(SchemaFields) \ CoexistOk :
            LET pairs == candidates(df_can, c)
                b == FirstOf(pairs, DOMAIN pairs)
                others == {i \in DOMAIN pairs :
                              HeaderNorm(pairs[i].col) # HeaderNorm(pairs[b].col)}
                s == FirstOf(pairs, others)
                s1 == Column(df_can, pairs[b].col)
                s2 == Column(df_can, pairs[s].col)
                tied == notna_sum(s1) = notna_sum(s2) /\ nunique(s1) = nunique(s2)
                more == IF notna_sum(s1) # notna_sum(s2)
                        THEN (IF notna_sum(s1) > notna_sum(s2) THEN b ELSE s)
                        ELSE (IF nunique(s1) > nunique(s2) THEN b ELSE s)
                failed == pc' = "run_raised" /\ result'.raised = "SchemaAmbiguityError"
            IN (pairs # <<>> /\ others # {}
                  /\ Abs(pairs[b].score - pairs[s].score) <= 2) =>
                  /\ tied => failed
                  /\ ~failed => /\ c \in DOMAIN locals'.mapping
                                /\ locals'.mapping[c] = pairs[more].col
                  /\ (failed /\ result'.about.field = c) =>
                         /\ result'.about.best = pairs[b]
                         /\ result'.about.second = pairs[s]]_vars

\* C18: when detect_schema has returned its mapping, every gated field of the
\* mapping meets its gate on the column it is mapped to: Address1 is
\* street-like in 30% of the rows (20% when 20% of them are PO boxes), City is
\* city-like in 50% and beside a valid State and Zip in 30%, State and Zip
\* are state- and zip-like in 70%, VIN holds a VIN in 1% and DeliveryDate
\* parses in 20%.
C18_ReturnedMappingMeetsGates ==
    pc = "canonical" =>
        LET m == locals.mapping
            n == Len(df_can.rows)
            rate(c, P(_)) == Hits(Column(df_can, m[c]), P)
        IN /\ "Address1" \in DOMAIN m =>
                 \/ 10 * rate("Address1", is_street) >= 3 * n
                 \/ /\ 10 * rate("Address1", is_po_box) >= 2 * n
                    /\ 10 * rate("Address1", is_street) >= 2 * n
           /\ "City" \in DOMAIN m =>
                 /\ 10 * rate("City", is_city) >= 5 * n
                 /\ 10 * Cardinality(CoRows(df_can, m["City"])) >= 3 * n
           /\ "State" \in DOMAIN m => 10 * rate("State", is_state) >= 7 * n
           /\ "Zip" \in DOMAIN m => 10 * rate("Zip", is_zip) >= 7 * n
           /\ "VIN" \in DOMAIN m => 100 * rate("VIN", contains_vin) >= n
           /\ "DeliveryDate" \in DOMAIN m => 10 * rate("DeliveryDate", Parses) >= 2 * n

\* C18 witness: a mapping with all six gated fields has been returned
C18_Witness ==
    /\ pc = "canonical"
    /\ Range(GatedFields) \subseteq DOMAIN locals.mapping

\* C19: when the column chosen for City has a name-like or model-like header
\* or equals Last_Name in at least 20% of the rows, detect_schema either
\* moves City to __CSZ_City (that column being city-like in at least 30% of
\* the rows) or fails with a SchemaError; it does not return with City still
\* mapped to the chosen column.
C19_CityGuardRemapsOrFails ==
    [][(/\ pc = "gates"
        /\ "City" \in DOMAIN locals.mapping
        /\ CityGuardTrips(df_can, locals.mapping)) =>
           \/ pc' = "run_raised" /\ result'.raised = "SchemaError"
           \/ /\ pc' = "canonical"
              /\ "__CSZ_City" \in df_can.cols
              /\ 10 * Hits(Column(df_can, "__CSZ_City"), is_city) >= 3 * Len(df_can.rows)
              /\ locals'.mapping["City"] = "__CSZ_City"]_vars

\* C20: for a table read with a "City/State/Zip" column, at least one row and
\* every value of that column of the form "Austin, TX 73301": the split
\* columns hold the city, the state and the zip of each row, detect_schema
\* does not fail, and the mapping it returns has City, State and Zip on
\* __CSZ_City, __CSZ_State and __CSZ_Zip.
C20_CompositeColumnIsSplitAndMapped ==
    (/\ "City/State/Zip" \in locals.file.cols
     /\ Len(locals.file.rows) >= 1
     /\ \A i \in DOMAIN locals.file.rows :
            locals.file.rows[i]["City/State/Zip"] \in {AustinTX, DallasTX}) =>
        /\ result.raised \notin SchemaErrors
        /\ pc \in {"detect", "csz", "gates", "canonical"} =>
              \A i \in DOMAIN df_can.rows :
                  LET r == df_can.rows[i]
                      austin == r["City/State/Zip"] = AustinTX
                  IN /\ r["__CSZ_City"] = (IF austin THEN Austin ELSE Dallas)
                     /\ r["__CSZ_State"] = TX
                     /\ r["__CSZ_Zip"] = (IF austin THEN Zip73301 ELSE Zip75201)
        /\ pc = "canonical" =>
              /\ {"City", "State", "Zip"} \subseteq DOMAIN locals.mapping
              /\ locals.mapping["City"] = "__CSZ_City"
              /\ locals.mapping["State"] = "__CSZ_State"
              /\ locals.mapping["Zip"] = "__CSZ_Zip"

(***************************************************************************)
(* preprocess.py: _normalize_phone_value, called on one raw text           *)
(***************************************************************************)
\* the length of the run of digits that ends the text
RECURSIVE TrailingDigits(_)
TrailingDigits(s) ==
    IF s # <<>> /\ IsDigit(s[Len(s)]) THEN 1 + TrailingDigits(SubSeq(s, 1, Len(s) - 1))
    ELSE 0

\* the text without the white space that ends it
RECURSIVE StripRight(_)
StripRight(s) ==
    IF s # <<>> /\ IsSpace(s[Len(s)]) THEN StripRight(SubSeq(s, 1, Len(s) - 1)) ELSE s

\* s ends with the word w, letters compared without case
EndsWithWord(s, w) ==
    /\ Len(s) >= Len(w)
    /\ \A i \in DOMAIN w : LowerChar(s[Len(s) - Len(w) + i]) = w[i]

\* re.search(r"(?:ext\.?|x)\s*(\d{1,5})$", text, IGNORECASE): group 1, or the
\* empty text when there is no match
phone_ext(text) ==
    LET found(k, head) ==
            IF /\ k \in 1..5
               /\ \/ EndsWithWord(head, <<"x">>)
                  \/ EndsWithWord(head, <<"e", "x", "t">>)
                  \/ EndsWithWord(head, <<"e", "x", "t", ".">>)
            THEN SubSeq(text, Len(text) - k + 1, Len(text))
            ELSE <<>>
        digits(k) == found(k, StripRight(SubSeq(text, 1, Len(text) - k)))
    IN digits(TrailingDigits(text))

\* lines 206-211: the core as AAA-NNN-NNNN, NNN-NNNN or the digits themselves
phone_format(core) ==
    IF Len(core) = 10
    THEN SubSeq(core, 1, 3) \o <<"-">> \o SubSeq(core, 4, 6) \o <<"-">> \o SubSeq(core, 7, 10)
    ELSE IF Len(core) = 7 THEN SubSeq(core, 1, 3) \o <<"-">> \o SubSeq(core, 4, 7)
    ELSE core

\* digits[-10:] if len(digits) >= 10 else digits
phone_core(digits) ==
    IF Len(digits) >= 10 THEN SubSeq(digits, Len(digits) - 9, Len(digits)) ELSE digits

_normalize_phone_value(value) ==
    LET out(ext, core) ==
            IF ext # <<>> THEN phone_format(core) \o <<" ", "x">> \o ext
            ELSE phone_format(core)
    IN out(phone_ext(value), phone_core(SelectSeq(value, IsDigit)))

\* the raw texts: a number, a suffix marker and the digits after the marker
MaxExtDigits == 3

PhoneNumbers ==
    { <<"5", "5", "5", "-", "1", "2", "3", "-", "4", "5", "6", "7">>,
      <<"5", "5", "5", "1", "2", "3", "4", "5", "6", "7">>,
      <<"1", " ", "5", "5", "5", " ", "1", "2", "3", " ", "4", "5", "6", "7">>,
      <<"1", "2", "3", "-", "4", "5", "6", "7">>,
      <<"1", "2", "3", "4", "5", "6", "7">>,
      <<"1", "2", "3", "4", "5">>,
      <<>> }

PhoneMarkers ==
    { <<>>, <<" ">>, <<" ", "x">>, <<"X">>, <<" ", "e", "x", "t", ".", " ">>,
      <<" ", "E", "x", "t">>, <<" ", "x", ".">> }

ExtMarkers == { <<" ", "x">>, <<"X">>, <<" ", "e", "x", "t", ".", " ">>, <<" ", "E", "x", "t">> }

PhoneExtDigits == {SubSeq(<<"8", "9", "0", "1", "2", "3">>, 1, n) : n \in 0..MaxExtDigits}

InitPhone ==
    /\ df_can \in [number : PhoneNumbers, marker : PhoneMarkers, ext : PhoneExtDigits]
    /\ pc = "phone_call"
    /\ locals = [value |-> df_can.number \o df_can.marker \o df_can.ext]
    /\ result = [out |-> <<>>]

\* one call of _normalize_phone_value
NormalizePhone ==
    /\ pc = "phone_call"
    /\ result' = [out |-> _normalize_phone_value(locals.value)]
    /\ pc' = "phone_done"
    /\ UNCHANGED <<df_can, locals>>

NextPhone == NormalizePhone

SpecPhone == InitPhone /\ [][NextPhone]_vars

\* C21: for a raw text made of a phone number, an "ext"/"x" marker and the
\* digits of the extension, the result is the core formatted from the digits
\* of the number alone (the last 10, exactly 7 as NNN-NNNN, otherwise the
\* digits as they are) followed by " x" and the extension.
C21_ExtensionKeptApart ==
    (/\ pc = "phone_done"
     /\ df_can.number # <<>>
     /\ df_can.marker \in ExtMarkers
     /\ df_can.ext # <<>>) =>
        result.out = phone_format(phone_core(SelectSeq(df_can.number, IsDigit)))
                     \o <<" ", "x">> \o df_can.ext


(***************************************************************************)
(* run_pipeline lines 45-53 alone: the VIN explosion of a raw table        *)
(***************************************************************************)
VinListTwice == VinA \o <<";">> \o VinALower

ExplodeFamilies ==
    { [order |-> <<"VIN", "VIN Explosion">>,
       base |-> <<>>,
       vals |-> { <<VinA, VinList>>, <<NoText, Lot7>>, <<VinALower, NoText>>,
                  <<VinB, VinListTwice>>, <<VinBad17, VinA>> }],
      [order |-> <<"Last Name", "VIN Explosion">>,
       base |-> <<>>,
       vals |-> { <<Smith, VinList>>, <<Lee, VinA>>, <<Lee, Lot7>>, <<Smith, NoText>> }],
      [order |-> <<"VIN">>,
       base |-> <<>>,
       vals |-> { <<VinA>>, <<NoText>> }] }

InitExplode ==
    /\ \E fam \in ExplodeFamilies : IsSchemaTable(df_can, fam)
    /\ pc = "explode"
    /\ locals = [presets |-> PRESETS, file |-> df_can, raw |-> df_can, steps |-> <<>>,
                 mapping |-> <<>>]
    /\ result = NoResult

\* the explosion step, the run stopped after it
ExplodeOnly ==
    /\ pc = "explode"
    /\ df_can' = explode_vins_on_raw(df_can, VinColumn(df_can),
                                     find_vin_explosion_column(df_can))
    /\ locals' = [locals EXCEPT !.raw = df_can']
    /\ pc' = "exploded"
    /\ UNCHANGED result

NextExplode == ExplodeOnly

SpecExplode == InitExplode /\ [][NextExplode]_vars

\* the strictly valid VINs of one raw row: the tokens of the list cell and the
\* value of the single-VIN column, stripped and in upper case
RowVins(r) ==
    LET valid(S) == {v \in S : VIN_RE_fullmatch(v)}
        cell(c) == IF c \in DOMAIN r THEN {Upper(Strip(r[c]))} ELSE {}
    IN valid({Upper(Strip(t)) : t \in Range(Segments(r["VIN Explosion"], VIN_EXPLOSION_DELIMITERS))}
             \cup cell("VIN"))

\* the output rows are the input rows src[1], src[2], .. in input order, each
\* input row once per VIN of RowVins, in ascending VIN order, each output row
\* with its VIN in the VIN column and the other values of its input row
ExplodedFrom(out, inp, src) ==
    /\ \A k \in DOMAIN out : \A m \in DOMAIN out : k < m => src[k] <= src[m]
    /\ \A i \in DOMAIN inp :
          /\ Cardinality({k \in DOMAIN out : src[k] = i}) = Cardinality(RowVins(inp[i]))
          /\ \A v \in RowVins(inp[i]) : \E k \in DOMAIN out :
                src[k] = i /\ "VIN" \in DOMAIN out[k] /\ out[k]["VIN"] = v
    /\ \A k \in DOMAIN out :
          /\ "VIN" \in DOMAIN out[k]
          /\ \A c \in DOMAIN out[k] \ {"VIN", "idx"} : out[k][c] = inp[src[k]][c]
          /\ \A m \in DOMAIN out : (k < m /\ src[k] = src[m]) => TextLess(out[k]["VIN"], out[m]["VIN"])

\* C22: with a VIN-list column, each input row yields exactly one output row
\* per distinct strictly valid VIN among the tokens of the list cell and the
\* value of the single-VIN column, each output row carrying its own VIN, in
\* ascending VIN order and in input-row order; a row with no valid VIN yields
\* no output row.
C22_OneRowPerValidVin ==
    (pc = "exploded" /\ "VIN Explosion" \in locals.file.cols) =>
        \E src \in [DOMAIN df_can.rows -> DOMAIN locals.file.rows] :
            ExplodedFrom(df_can.rows, locals.file.rows, src)

\* the same for the tables that have a single-VIN column
C22_WithVinColumn ==
    (pc = "exploded" /\ "VIN" \in locals.file.cols) => C22_OneRowPerValidVin


(***************************************************************************)
(* _normalize_address_key applied to four raw texts, then to its own       *)
(* normalised components                                                   *)
(***************************************************************************)
KeyAddresses ==
    { <<"1", " ", "E", "l", "m", " ", "S", "t", ".">>,
      <<" ", "1", " ", "E", "L", "M", " ", " ", "S", "T">>,
      <<"P", ".", "O", ".", " ", "B", "o", "x", " ", "9">>,
      <<"p", "o", " ", "b", "o", "x", " ", "9">>,
      <<"P", "-", "O", " ", "B", "o", "x", " ", "9">>,
      <<"9", " ", "O", "a", "k", " ", "A", "v", "e", " ", "#", "2">>,
      <<"9", " ", "O", "a", "k", " ", "A", "v", "e", ",", " ", "A", "p", "t", ".", " ", "2">>,
      <<"9", " ", "O", "a", "k", " ", "S", "t", "e", "-", "2">>,
      <<>> }

KeyCities == { <<"A", "u", "s", "t", "i", "n">>, <<"S", "t", ".", " ", "P", "a", "u", "l">>, <<>> }

KeyStates == { <<"T", "X">>, <<"t", "x", " ">>, <<"T", ".", "X", ".">> }

KeyZips == { <<"7", "3", "3", "0", "1">>,
             <<"7", "3", "3", "0", "1", "-", "1", "2", "3", "4">>,
             <<"7", "3", "3">>, <<>> }

\* the components of lines 103-106 and the key of lines 107-109
KeyParts(a1, city, state, z) ==
    [a1n |-> norm(a1), cityn |-> norm(city), staten |-> norm(state), zip5 |-> zip5(z),
     key |-> _normalize_address_key(a1, city, state, z)]

InitKey ==
    /\ df_can \in [a1 : KeyAddresses, city : KeyCities, state : KeyStates, z : KeyZips]
    /\ pc = "key_call"
    /\ locals = KeyParts(<<>>, <<>>, <<>>, <<>>)
    /\ result = KeyParts(<<>>, <<>>, <<>>, <<>>)

\* _normalize_address_key on the raw texts
NormalizeKey ==
    /\ pc = "key_call"
    /\ result' = KeyParts(df_can.a1, df_can.city, df_can.state, df_can.z)
    /\ pc' = "key_once"
    /\ UNCHANGED <<df_can, locals>>

\* _normalize_address_key on the components of the first call, which are kept
\* in locals
NormalizeKeyAgain ==
    /\ pc = "key_once"
    /\ locals' = result
    /\ result' = KeyParts(result.a1n, result.cityn, result.staten, result.zip5)
    /\ pc' = "key_twice"
    /\ UNCHANGED df_can

NextKey == NormalizeKey \/ NormalizeKeyAgain

SpecKey == InitKey /\ [][NextKey]_vars

\* C23: normalising the already normalised Address1, City, State and Zip
\* again returns the same components and the same key.
C23_KeyNormalizationIdempotent ==
    pc = "key_twice" => result = locals


\* the Address Key of a row of the returned table
OutputKey(r) == AddrKey([r |-> r])

\* the dropped row d is dated, has an Address Key, and is newer than every
\* dated row of its Address Key in the work rows
NewerThanSurvivors(d, work) ==
    /\ AddrKey(d) # <<>>
    /\ d.date # 0
    /\ \A i \in DOMAIN work :
          (AddrKey(work[i]) = AddrKey(d) /\ work[i].date # 0) => d.date > work[i].date

\* C24: if a row dropped by Pass 1 has a non-empty Address Key K and an
\* Effective Date strictly newer than the maximum Effective Date of the rows
\* with key K that survive Pass 1 (or none of them has a date), then no row
\* with Address Key K is in the returned table.
C24_CrossPassSuppression ==
    Finished =>
        LET rule(after1) ==
                \A j \in DOMAIN after1.dropped_vin :
                    NewerThanSurvivors(after1.dropped_vin[j], after1.work) =>
                        \A k \in DOMAIN result.table.rows :
                            OutputKey(result.table.rows[k]) # AddrKey(after1.dropped_vin[j])
        IN rule(dd_pass1(df_can, dd_begin(df_can)))

\* a finished call in which Pass 1 dropped such a row while another row of
\* its Address Key survived Pass 1
C24_Witness ==
    /\ Finished
    /\ LET case(after1) ==
               \E j \in DOMAIN after1.dropped_vin :
                   /\ NewerThanSurvivors(after1.dropped_vin[j], after1.work)
                   /\ \E i \in DOMAIN after1.work :
                         AddrKey(after1.work[i]) = AddrKey(after1.dropped_vin[j])
       IN case(dd_pass1(df_can, dd_begin(df_can)))


\* the work row has no Address Key: an address column is absent from the
\* table, or a normalised component of the row is empty
ComponentMissing(w) ==
    \/ ~(AddressCols \subseteq df_can.cols)
    \/ norm(w.r.Address1) = <<>>
    \/ norm(w.r.City) = <<>>
    \/ norm(w.r.State) = <<>>
    \/ zip5(w.r.Zip) = <<>>

\* C25: a row with no strictly valid VIN and an empty Address Key (some
\* address component missing) is in the returned table whatever the other
\* rows are, and a row without a valid VIN is among the rows left by Pass 1.
C25_UnkeyedRowsAreKept ==
    /\ Finished =>
          \A x \in InputWork : (VinKey(x) = <<>> /\ ComponentMissing(x)) =>
              \E k \in DOMAIN result.table.rows : result.table.rows[k] = x.r
    /\ Pass1Done =>
          \A x \in InputWork : VinKey(x) = <<>> =>
              \E i \in DOMAIN locals.work : locals.work[i].r = x.r

\* a finished call that removed a row and whose input holds a row without
\* valid VIN and without Address Key
C25_Witness ==
    /\ Finished
    /\ result.removed > 0
    /\ \E x \in InputWork : VinKey(x) = <<>> /\ ComponentMissing(x)


\* the token stands in the text as a whole word
ContainsWord(f, tok) ==
    \E i \in DOMAIN f :
        StartsAt(f, i, tok) /\ Boundary(f, i) /\ Boundary(f, i + Len(tok))

\* a brand, OEM or keyword as a whole word of the upper-cased text, or a
\* corporate suffix among its tokens
HasWordHit(f) ==
    \/ \E tok \in EXCLUDE_OEMS \cup EXCLUDE_BRANDS \cup EXCLUDE_KEYWORDS : ContainsWord(f, tok)
    \/ \E suf \in CORPORATE_SUFFIXES : InTokens(f, suf)

NameWordHit(r) ==
    HasWordHit(Upper(r.FullName)) \/ HasWordHit(Upper(r.First_Name \o <<" ">> \o r.Last_Name))

\* C26: brands and keywords are matched by whole word: a row with title-cased
\* First and Last names whose name texts hold no brand, OEM, keyword or
\* suffix as a whole word is kept by filter_corporate, so the row with
\* First "John" and Last "Davis" (DAVIS contains AVIS) is kept.
C26_WholeWordBrandMatch ==
    [][(pc = "exclude_corporate" /\ locals.presets.exclude_corporate)
       => \A r \in Range(df_can.rows) :
             (TitleCasedNames(r) /\ ~NameWordHit(r)) => r \in Range(df_can'.rows)]_vars

\* the same for the rows other than those named Davis
C26_ExceptDavis ==
    [][(pc = "exclude_corporate" /\ locals.presets.exclude_corporate)
       => \A r \in Range(df_can.rows) :
             (TitleCasedNames(r) /\ ~NameWordHit(r) /\ r.Last_Name # Davis)
                 => r \in Range(df_can'.rows)]_vars


(***************************************************************************)
(* One call of one stage on a table: the filters and delete_duplicates as  *)
(* run_pipeline calls them.  df_can is the table the stage is given,       *)
(* locals.given the same table as it was before the call, result what the  *)
(* call returns.                                                           *)
(***************************************************************************)
\* a canonical frame built from a raw table of the pipeline runs
IsCanonicalTable(df) ==
    \E cols \in RunColChoices : \E n \in 1..MaxRunRows : \E f \in [1..n -> RunRowVals] :
        df = build_canonical_frame(
                 [cols |-> cols,
                  rows |-> [i \in 1..n |-> [c \in cols \cup {"idx"} |->
                               IF c = "idx" THEN i - 1 ELSE f[i][c]]]])

InitStage ==
    /\ \/ IsCanonicalTable(df_can)
       \/ \E fam \in Families : IsTable(df_can, fam)
    /\ pc = "stage_call"
    /\ locals = [presets |-> PRESETS, stage |-> "", given |-> df_can]
    /\ result = NoResult

\* a count of the rows that were kept
removed_count_kept(df, out) == Len(out.rows)

\* "return out, len(df_can) - len(out)"
removed_count(df, out) == Len(df.rows) - Len(out.rows)

\* a filter returns (out, removed); no filter assigns to a column or a cell
\* of df_can
CallFilter(name, out) ==
    /\ pc = "stage_call"
    /\ pc' = "stage_done"
    /\ locals' = [locals EXCEPT !.stage = name]
    /\ result' = [table |-> out, removed |-> removed_count(df_can, out), raised |-> ""]
    /\ UNCHANGED df_can

CallCorporate == CallFilter("exclude_corporate", filter_corporate(df_can))

CallNamePresent == CallFilter("name_present", filter_name_present(df_can))

CallAddressPresent == CallFilter("address_present", filter_address_present(df_can))

CallOutOfState ==
    CallFilter("out_of_state", filter_out_of_state(df_can, locals.presets.home_state))

CallModelYearNewer ==
    CallFilter("model_year_newer",
               filter_model_year(df_can, "newer", locals.presets.model_year_filter.min_year - 1))

CallModelYearOlder ==
    CallFilter("model_year_older",
               filter_model_year(df_can, "older", locals.presets.model_year_filter.max_year + 1))

\* _effective_date_series raises on a table without DeliveryDate that has a
\* fallback date column
CallDeliveryAge ==
    IF EffectiveDateRaises(df_can.cols)
    THEN /\ pc = "stage_call"
         /\ pc' = "stage_done"
         /\ locals' = [locals EXCEPT !.stage = "delivery_age"]
         /\ result' = [table |-> df_can, removed |-> 0, raised |-> "AttributeError"]
         /\ UNCHANGED df_can
    ELSE CallFilter("delivery_age",
                    filter_delivery_age(df_can, locals.presets.delivery_age_filter.months))

CallDistance ==
    CallFilter("distance", filter_distance(df_can, locals.presets.distance_filter.max_miles))

\* delete_duplicates works on work, a copy of df_can (line 118)
CallDedupe ==
    /\ pc = "stage_call"
    /\ pc' = "stage_done"
    /\ locals' = [locals EXCEPT !.stage = "dedupe"]
    /\ result' = delete_duplicates(df_can)
    /\ UNCHANGED df_can

NextStage ==
    \/ CallCorporate
    \/ CallNamePresent
    \/ CallAddressPresent
    \/ CallOutOfState
    \/ CallModelYearNewer
    \/ CallModelYearOlder
    \/ CallDeliveryAge
    \/ CallDistance
    \/ CallDedupe

SpecStage == InitStage /\ [][NextStage]_vars

\* the call has returned a table
StageReturned == pc = "stage_done" /\ result.raised = ""

\* C27: every filter stage and delete_duplicates leaves the table it is given
\* unchanged (same rows, values and columns after the call), and the table it
\* returns has exactly the columns of the input: none of the helper columns
\* of delete_duplicates is among them.
C27_InputUnchangedColumnsKept ==
    StageReturned =>
        /\ df_can = locals.given
        /\ result.table.cols = locals.given.cols
        /\ result.table.cols \cap
              {"___DATE", "___ORDER", "___VIN_UP", "___ADDR_KEY", "__HAS_DEAL", "__DN_NUM",
               "__DN_NUM_FILLED"} = {}

\* delete_duplicates has returned after both passes ran and removed a row
C27_Witness ==
    /\ StageReturned
    /\ locals.stage = "dedupe"
    /\ result.removed > 0
    /\ \E i \in DOMAIN df_can.rows : VinValid(df_can.rows[i].VIN)
    /\ \E i \in DOMAIN df_can.rows : RowAddrKey(df_can.rows[i]) # <<>>


\* C28: every stage returns a sub-collection of its input rows with the values
\* unchanged, adding and altering no row, so the row count does not increase,
\* and the removed count it returns is input rows minus output rows.
C28_SubCollectionAndCount ==
    StageReturned =>
        /\ Range(result.table.rows) \subseteq Range(locals.given.rows)
        /\ Cardinality(Range(result.table.rows)) = Len(result.table.rows)
        /\ Len(result.table.rows) <= Len(locals.given.rows)
        /\ result.removed = Len(locals.given.rows) - Len(result.table.rows)

\* a filter has returned a table with fewer rows than it was given
C28_Witness ==
    /\ StageReturned
    /\ locals.stage = "distance"
    /\ Len(result.table.rows) > 0
    /\ Len(result.table.rows) < Len(locals.given.rows)


(***************************************************************************)
(* delete_duplicates called on a table and then on the table it returned   *)
(***************************************************************************)
InitTwice ==
    /\ \E fam \in Families : IsTable(df_can, fam)
    /\ pc = "first_call"
    /\ locals = [first |-> NoResult]
    /\ result = NoResult

FirstCall ==
    /\ pc = "first_call"
    /\ result' = delete_duplicates(df_can)
    /\ locals' = [first |-> result']
    /\ pc' = IF result'.raised = "" THEN "second_call" ELSE "first_raised"
    /\ UNCHANGED df_can

SecondCall ==
    /\ pc = "second_call"
    /\ result' = delete_duplicates(locals.first.table)
    /\ pc' = "second_done"
    /\ UNCHANGED <<df_can, locals>>

NextTwice == FirstCall \/ SecondCall

SpecTwice == InitTwice /\ [][NextTwice]_vars

\* C29: delete_duplicates applied to its own output removes nothing: the
\* second call returns the rows it was given.
C29_DedupeIdempotent ==
    pc = "second_done" =>
        /\ result.raised = ""
        /\ result.removed = 0
        /\ Range(result.table.rows) = Range(locals.first.table.rows)

\* the first call removed a row and the second call was made on several rows
C29_Witness ==
    /\ pc = "second_done"
    /\ locals.first.removed > 0
    /\ Len(locals.first.table.rows) > 1


(***************************************************************************)
(* delete_duplicates called on a table and on the same rows in another     *)
(* order                                                                   *)
(***************************************************************************)
\* the rows of df in the order p; the labels stay with the positions, as in
\* a file whose lines were reordered
Permuted(df, p) ==
    [df EXCEPT !.rows = [i \in DOMAIN df.rows |->
                            [df.rows[p[i]] EXCEPT !.idx = df.rows[i].idx]]]

\* the exchange of the first two of n positions and the rotation of all of
\* them: every order of the rows is reached by repeating the two
Reorderings(n) ==
    { [i \in 1..n |-> IF i = 1 THEN 2 ELSE IF i = 2 THEN 1 ELSE i],
      [i \in 1..n |-> IF i = n THEN 1 ELSE i + 1] }

InitPermute ==
    /\ \E fam \in Families : IsTable(df_can, fam)
    /\ Len(df_can.rows) > 1
    /\ pc = "given_call"
    /\ \E p \in Reorderings(Len(df_can.rows)) :
          locals = [permuted |-> Permuted(df_can, p), given |-> NoResult]
    /\ result = NoResult

CallGiven ==
    /\ pc = "given_call"
    /\ locals' = [locals EXCEPT !.given = delete_duplicates(df_can)]
    /\ pc' = "permuted_call"
    /\ UNCHANGED <<df_can, result>>

CallPermuted ==
    /\ pc = "permuted_call"
    /\ result' = delete_duplicates(locals.permuted)
    /\ pc' = "compared"
    /\ UNCHANGED <<df_can, locals>>

NextPermute == CallGiven \/ CallPermuted

SpecPermute == InitPermute /\ [][NextPermute]_vars

\* the values of the rows of a table, without their labels
RowValues(table) ==
    {[c \in table.cols |-> table.rows[i][c]] : i \in DOMAIN table.rows}

\* no two input rows that share a valid VIN or a non-empty Address Key are
\* tied on Effective Date, Deal_Number presence and Deal_Number value
NoTiedPair ==
    \A x \in InputWork : \A y \in InputWork :
        (/\ x # y
         /\ \/ VinKey(x) # <<>> /\ VinKey(x) = VinKey(y)
            \/ AddrKey(x) # <<>> /\ AddrKey(x) = AddrKey(y))
        => ~(DateTied(x, y) /\ DealTied(x, y))

\* C30: when no two rows that share a valid VIN or a non-empty Address Key
\* are tied on Effective Date, Deal_Number presence and Deal_Number numeric
\* value, delete_duplicates returns the same set of rows for the table and
\* for every permutation of its rows.
C30_SurvivorsIndependentOfOrder ==
    (pc = "compared" /\ NoTiedPair) =>
        /\ result.raised = locals.given.raised
        /\ RowValues(result.table) = RowValues(locals.given.table)

\* the same for the pairs of calls that both return
C30_WhenBothReturn ==
    (pc = "compared" /\ NoTiedPair /\ result.raised = "" /\ locals.given.raised = "") =>
        RowValues(result.table) = RowValues(locals.given.table)

====
